---- MODULE Spec2Model ----
(***************************************************************************)
(* A model of the maze core of procedural-maze-generator: the grid of      *)
(* cells with walls (maze.py), the four generators (generators.py) and the *)
(* five solvers (solvers.py).                                              *)
(*                                                                         *)
(* A cell is identified by its coordinates <<x, y>> (Cell.__eq__ and       *)
(* Cell.__hash__ are coordinate based).  None stands for Python's None in  *)
(* a cell reference, NoDist for None in Cell.distance, NoSeed for          *)
(* seed=None.                                                              *)
(***************************************************************************)
EXTENDS Integers, Sequences, FiniteSets, TLC

\* Bounds of the model.
MaxCells == 6    \* grids of every shape width x height with width*height <= MaxCells
SeedCells == 4   \* the same, for the seeded scenarios of SpecSeed
LiveCells == 4   \* the same, for the runs to completion of SpecLive
MazeCells == 3   \* the same, for the calls of the Maze class of SpecMaze
RestartCells == 4 \* the same, for the grids changed by hand of SpecRestart
DirtyCells == 1  \* cells whose walls or visited flag a caller changed by hand in SpecRestart
MaxDraws == 7    \* variates revealed of one seed's stream
MaxGens == 2     \* generators constructed by callers in SpecSeed
MaxRuns == 2     \* generate calls of seeded generators recorded in SpecSeed
MaxForeign == 2  \* variates other callers draw from a seeded stream through get_random_cell

None == <<-1, -1>>
NoDist == -1
NoSeed == -1
Seeds == {42}
Algs == {"dfs", "prim", "kruskal", "wilson"}

\* Direction, in the iteration order of the Enum.
DirSeq == <<"NORTH", "SOUTH", "EAST", "WEST">>
Direction == {"NORTH", "SOUTH", "EAST", "WEST"}

delta(d) ==
  CASE d = "NORTH" -> <<0, -1>>
    [] d = "SOUTH" -> <<0, 1>>
    [] d = "EAST" -> <<1, 0>>
    [] d = "WEST" -> <<-1, 0>>

opposite(d) ==
  CASE d = "NORTH" -> "SOUTH"
    [] d = "SOUTH" -> "NORTH"
    [] d = "EAST" -> "WEST"
    [] d = "WEST" -> "EAST"

VARIABLES
  width,          \* Maze.width
  height,         \* Maze.height
  grid,           \* Maze.grid: cell -> its fields
  start,          \* Maze.start
  end,            \* Maze.end
  solution_path,  \* Maze.solution_path
  pc,             \* where the running generate call is, "idle" between calls
  loc,            \* the local variables of the running generate call
  random,         \* the state of the module-level PRNG of `random`
  last,           \* the call made last and what it returned
  gens,           \* the generator objects constructed so far
  runs            \* the layouts of the finished generate calls of seeded generators

vars == <<width, height, grid, start, end, solution_path, pc, loc, random, last, gens, runs>>

Abs(n) == IF n < 0 THEN -n ELSE n

Cells(w, h) == (0 .. w - 1) \X (0 .. h - 1)

\* Cell.__init__
NewCell ==
  [walls |-> Direction, visited |-> FALSE, is_start |-> FALSE, is_end |-> FALSE,
   distance |-> NoDist, parent |-> None]

\* Maze.get_cell
get_cell(w, h, x, y) ==
  IF 0 <= x /\ x < w /\ 0 <= y /\ y < h THEN <<x, y>> ELSE None

step(c, d) == <<c[1] + delta(d)[1], c[2] + delta(d)[2]>>

\* Maze.__iter__: the cells in row-major order.
RowMajor(w, h) == [i \in 1 .. w * h |-> <<(i - 1) % w, (i - 1) \div w>>]

\* Maze.get_neighbors
get_neighbors(w, h, c) ==
  LET nb(i) == get_cell(w, h, step(c, DirSeq[i])[1], step(c, DirSeq[i])[2])
      F[i \in 0 .. 4] ==
        IF i = 0 THEN <<>>
        ELSE LET p == F[i - 1] IN IF nb(i) # None THEN Append(p, nb(i)) ELSE p
  IN F[4]

\* get_unvisited_neighbors that does not look at the visited flags.
get_unvisited_neighbors_all(g, w, h, c) == get_neighbors(w, h, c)

\* Maze.get_unvisited_neighbors
get_unvisited_neighbors(g, w, h, c) ==
  SelectSeq(get_neighbors(w, h, c), LAMBDA n : ~g[n].visited)

\* _are_adjacent that also accepts the diagonal neighbours.
are_adjacent_diagonal(c1, c2) ==
  LET dx == Abs(c1[1] - c2[1])
      dy == Abs(c1[2] - c2[2])
  IN dx <= 1 /\ dy <= 1 /\ dx + dy > 0

\* Maze._are_adjacent
are_adjacent(c1, c2) ==
  LET dx == Abs(c1[1] - c2[1])
      dy == Abs(c1[2] - c2[2])
  IN (dx = 1 /\ dy = 0) \/ (dx = 0 /\ dy = 1)

\* remove_wall_between that forgets the second cell's side of the wall.
RemoveWallsOneSide(g, c1, d1, c2, d2) ==
  [g EXCEPT ![c1].walls = @ \ {d1}]

RemoveWalls(g, c1, d1, c2, d2) ==
  [g EXCEPT ![c1].walls = @ \ {d1}, ![c2].walls = @ \ {d2}]

\* remove_wall_between that removes, from each cell, the wall on the far side.
remove_wall_between_swapped(g, c1, c2) ==
  IF ~are_adjacent(c1, c2) THEN g
  ELSE LET dx == c2[1] - c1[1]
           dy == c2[2] - c1[2]
       IN IF dx = 1 THEN RemoveWalls(g, c1, "WEST", c2, "EAST")
          ELSE IF dx = -1 THEN RemoveWalls(g, c1, "EAST", c2, "WEST")
          ELSE IF dy = 1 THEN RemoveWalls(g, c1, "NORTH", c2, "SOUTH")
          ELSE IF dy = -1 THEN RemoveWalls(g, c1, "SOUTH", c2, "NORTH")
          ELSE g

\* Maze.remove_wall_between: the grid it leaves (its return value is are_adjacent).
remove_wall_between(g, c1, c2) ==
  IF ~are_adjacent(c1, c2) THEN g
  ELSE LET dx == c2[1] - c1[1]
           dy == c2[2] - c1[2]
       IN IF dx = 1 THEN RemoveWalls(g, c1, "EAST", c2, "WEST")
          ELSE IF dx = -1 THEN RemoveWalls(g, c1, "WEST", c2, "EAST")
          ELSE IF dy = 1 THEN RemoveWalls(g, c1, "SOUTH", c2, "NORTH")
          ELSE IF dy = -1 THEN RemoveWalls(g, c1, "NORTH", c2, "SOUTH")
          ELSE g

\* Maze.reset_visited
reset_visited(g) == [c \in DOMAIN g |-> [g[c] EXCEPT !.visited = FALSE]]

\* _reset_maze that only calls reset_visited.
reset_maze_keep_walls(g) == reset_visited(g)

\* MazeGenerator._reset_maze
reset_maze(g) == [c \in DOMAIN g |-> [reset_visited(g)[c] EXCEPT !.walls = Direction]]

(***************************************************************************)
(* The module-level PRNG.  random.seed = NoSeed: the generator was seeded  *)
(* by the interpreter from the system's entropy, and a draw below n can    *)
(* give any of 0 .. n-1.  random.seed = s: a caller seeded it with s, pos  *)
(* variates have been drawn since, and stream[s] is the part of the        *)
(* sequence seed s determines that has been revealed so far: stream[s][p]  *)
(* maps n to the value the p-th variate gives when drawn below n.  A value *)
(* is chosen when it is first drawn and is the same on every later draw at *)
(* that position.                                                          *)
(***************************************************************************)
Draws(r, n) ==
  IF r.seed = NoSeed
  THEN {[k |-> k, r |-> r] : k \in 0 .. n - 1}
  ELSE LET s == r.seed
           p == r.pos + 1
           st == r.stream[s]
       IN IF p <= Len(st)
          THEN IF n \in DOMAIN st[p]
               THEN {[k |-> st[p][n], r |-> [r EXCEPT !.pos = p]]}
               ELSE {[k |-> k,
                      r |-> [r EXCEPT !.pos = p, !.stream[s][p] = st[p] @@ (n :> k)]] :
                       k \in 0 .. n - 1}
          ELSE IF p <= MaxDraws
               THEN {[k |-> k,
                      r |-> [r EXCEPT !.pos = p, !.stream[s] = Append(st, n :> k)]] :
                       k \in 0 .. n - 1}
               ELSE {}

\* random.seed(s)
Seeded(r, s) == [r EXCEPT !.seed = s, !.pos = 0]

\* Maze.get_random_cell: the cells it can return, each with the PRNG state it leaves.
get_random_cell(r, w, h) ==
  UNION {{[cell |-> <<dx.k, dy.k>>, r |-> dy.r] : dy \in Draws(dx.r, h)} : dx \in Draws(r, w)}

Dims(n) == {d \in (1 .. n) \X (1 .. n) : d[1] * d[2] <= n}

\* Maze.__init__ of a grid of at most n cells; g0 are the generators that exist.
InitDims(n, g0) ==
  /\ \E d \in Dims(n) :
       /\ width = d[1]
       /\ height = d[2]
       /\ grid = [c \in Cells(d[1], d[2]) |-> NewCell]
  /\ start = None
  /\ end = None
  /\ solution_path = <<>>
  /\ pc = "idle"
  /\ loc = <<>>
  /\ random = [seed |-> NoSeed, pos |-> 0, stream |-> [s \in Seeds |-> <<>>]]
  /\ last = [op |-> "init"]
  /\ gens = g0
  /\ runs = <<>>

\* The four generators constructed without a seed.
Unseeded ==
  <<[alg |-> "dfs", seed |-> NoSeed, seen |-> {"foreign"}],
    [alg |-> "prim", seed |-> NoSeed, seen |-> {"foreign"}],
    [alg |-> "kruskal", seed |-> NoSeed, seen |-> {"foreign"}],
    [alg |-> "wilson", seed |-> NoSeed, seen |-> {"foreign"}]>>

Init == InitDims(MaxCells, Unseeded)

\* No Maze constructed yet (pc = "new"); the four generators exist.
InitNew ==
  /\ width = 0
  /\ height = 0
  /\ grid = [c \in {} |-> NewCell]
  /\ start = None
  /\ end = None
  /\ solution_path = <<>>
  /\ pc = "new"
  /\ loc = <<>>
  /\ random = [seed |-> NoSeed, pos |-> 0, stream |-> [s \in Seeds |-> <<>>]]
  /\ last = [op |-> "init"]
  /\ gens = Unseeded
  /\ runs = <<>>

\* Maze.__init__ that rejects only negative dimensions.
NewMazeNegative(w, h) ==
  /\ pc = "new"
  /\ IF w < 0 \/ h < 0
     THEN /\ pc' = "failed"
          /\ last' = [op |-> "Maze", w |-> w, h |-> h, ret |-> "ValueError"]
          /\ UNCHANGED <<width, height, grid, start, end, solution_path>>
     ELSE /\ width' = w
          /\ height' = h
          /\ grid' = [c \in Cells(w, h) |-> NewCell]
          /\ start' = None
          /\ end' = None
          /\ solution_path' = <<>>
          /\ pc' = "idle"
          /\ last' = [op |-> "Maze", w |-> w, h |-> h, ret |-> "ok"]
  /\ UNCHANGED <<loc, random, gens, runs>>

\* Maze(w, h): Maze.__init__ raises ValueError (pc = "failed", there is no maze
\* to call) or leaves the new maze.
NewMaze(w, h) ==
  /\ pc = "new"
  /\ IF w < 1 \/ h < 1
     THEN /\ pc' = "failed"
          /\ last' = [op |-> "Maze", w |-> w, h |-> h, ret |-> "ValueError"]
          /\ UNCHANGED <<width, height, grid, start, end, solution_path>>
     ELSE /\ width' = w
          /\ height' = h
          /\ grid' = [c \in Cells(w, h) |-> NewCell]
          /\ start' = None
          /\ end' = None
          /\ solution_path' = <<>>
          /\ pc' = "idle"
          /\ last' = [op |-> "Maze", w |-> w, h |-> h, ret |-> "ok"]
  /\ UNCHANGED <<loc, random, gens, runs>>

\* What the generators constructed so far have seen when a caller has drawn
\* from the module-level PRNG or seeded it: kind[j] is what generator j saw.
Note(gs, kind) ==
  [j \in DOMAIN gs |->
     IF gs[j].seed = NoSeed \/ kind[j] = "nothing" THEN gs[j]
     ELSE [gs[j] EXCEPT !.seen = @ \cup {kind[j]}]]

\* MazeGenerator.__init__(seed) of the generator class of algorithm a.
Construct(a, seed) ==
  /\ pc = "idle"
  /\ Len(gens) < MaxGens
  /\ random' = IF seed # NoSeed THEN Seeded(random, seed) ELSE random
  /\ gens' = Append(Note(gens, [j \in DOMAIN gens |->
                                     IF seed = NoSeed THEN "nothing"
                                     ELSE IF seed = gens[j].seed THEN "same_seed"
                                     ELSE "foreign"]),
                    [alg |-> a, seed |-> seed,
                     seen |-> IF seed = NoSeed THEN {"foreign"} ELSE {}])
  /\ last' = [op |-> "construct", alg |-> a, seed |-> seed]
  /\ UNCHANGED <<width, height, grid, start, end, solution_path, pc, loc, runs>>

\* Maze.get_random_cell(), called by a caller that is none of the generators.
GetRandomCell ==
  /\ pc = "idle"
  /\ random.pos + 2 <= MaxForeign
  /\ \E rc \in get_random_cell(random, width, height) :
       /\ random' = rc.r
       /\ last' = [op |-> "get_random_cell", ret |-> rc.cell]
  /\ gens' = Note(gens, [j \in DOMAIN gens |-> "foreign"])
  /\ UNCHANGED <<width, height, grid, start, end, solution_path, pc, loc, runs>>

\* What a generate call of generator i shows the other generators: a call that
\* draws from the module-level PRNG between their construction and their runs.
Kind(i, j) ==
  IF gens[i].seed # NoSeed /\ gens[i].seed = gens[j].seed THEN "same_seed" ELSE "foreign"

\* The entry of generator i's generate: the guard, and the bookkeeping of the call.
Enter(i, a) ==
  /\ pc = "idle"
  /\ i \in DOMAIN gens
  /\ gens[i].alg = a
  /\ gens[i].seed # NoSeed => Len(runs) < MaxRuns
  /\ last' = [op |-> "generate", alg |-> a, gen |-> i]
  /\ gens' = Note(gens, [j \in DOMAIN gens |-> IF j = i THEN "nothing" ELSE Kind(i, j)])
  /\ UNCHANGED <<width, height, start, end, solution_path, runs>>

\* DepthFirstSearchGenerator.generate, to the head of its loop.
DFSBegin(i) ==
  /\ Enter(i, "dfs")
  /\ \E rc \in get_random_cell(random, width, height) :
       /\ grid' = [reset_maze(grid) EXCEPT ![rc.cell].visited = TRUE]
       /\ loc' = [stack |-> <<rc.cell>>, iters |-> 0]
       /\ random' = rc.r
  /\ pc' = "dfs"

\* One iteration of the loop of DepthFirstSearchGenerator.generate.
DFSStep ==
  /\ pc = "dfs"
  /\ loc.stack # <<>>
  /\ LET current == loc.stack[Len(loc.stack)]
         unvisited_neighbors == get_unvisited_neighbors(grid, width, height, current)
     IN IF unvisited_neighbors # <<>>
        THEN \E d \in Draws(random, Len(unvisited_neighbors)) :
               LET next_cell == unvisited_neighbors[d.k + 1]
               IN /\ grid' = remove_wall_between(
                               [grid EXCEPT ![next_cell].visited = TRUE], current, next_cell)
                  /\ loc' = [loc EXCEPT !.stack = Append(@, next_cell), !.iters = @ + 1]
                  /\ random' = d.r
        ELSE /\ loc' = [loc EXCEPT !.stack = SubSeq(@, 1, Len(@) - 1), !.iters = @ + 1]
             /\ UNCHANGED <<grid, random>>
  /\ UNCHANGED <<width, height, start, end, solution_path, pc, last, gens, runs>>

\* The frontier PrimGenerator.generate adds for cell c: one (cell, neighbor,
\* direction) entry per direction with a neighbor, unvisited ones only when `all` is false.
PrimWalls(g, w, h, c, all) ==
  LET nb(i) == get_cell(w, h, step(c, DirSeq[i])[1], step(c, DirSeq[i])[2])
      F[i \in 0 .. 4] ==
        IF i = 0 THEN <<>>
        ELSE IF nb(i) # None /\ (all \/ ~g[nb(i)].visited)
             THEN Append(F[i - 1], <<c, nb(i), DirSeq[i]>>)
             ELSE F[i - 1]
  IN F[4]

\* list.pop(index), the index counted from 0: the list that is left.
Pop(s, k) == SubSeq(s, 1, k) \o SubSeq(s, k + 2, Len(s))

\* PrimGenerator.generate, to the head of its loop.
PrimBegin(i) ==
  /\ Enter(i, "prim")
  /\ \E rc \in get_random_cell(random, width, height) :
       /\ grid' = [reset_maze(grid) EXCEPT ![rc.cell].visited = TRUE]
       /\ loc' = [walls |-> PrimWalls(grid, width, height, rc.cell, TRUE), iters |-> 0]
       /\ random' = rc.r
  /\ pc' = "prim"

\* One iteration of the loop of PrimGenerator.generate.
PrimStep ==
  /\ pc = "prim"
  /\ loc.walls # <<>>
  /\ \E d \in Draws(random, Len(loc.walls)) :
       LET wall == loc.walls[d.k + 1]
           current_cell == wall[1]
           neighbor_cell == wall[2]
           rest == Pop(loc.walls, d.k)
           carved == remove_wall_between(
                       [grid EXCEPT ![neighbor_cell].visited = TRUE], current_cell, neighbor_cell)
       IN /\ random' = d.r
          /\ IF grid[current_cell].visited # grid[neighbor_cell].visited
                /\ ~grid[neighbor_cell].visited
             THEN /\ grid' = carved
                  /\ loc' = [loc EXCEPT
                               !.walls = rest \o PrimWalls(carved, width, height, neighbor_cell, FALSE),
                               !.iters = @ + 1]
             ELSE /\ grid' = grid
                  /\ loc' = [loc EXCEPT !.walls = rest, !.iters = @ + 1]
  /\ UNCHANGED <<width, height, start, end, solution_path, pc, last, gens, runs>>

\* The edge list built from the edges of every cell to its four neighbors.
KruskalEdgesAllSides(w, h) ==
  LET cells == RowMajor(w, h)
      F[i \in 0 .. w * h] ==
        IF i = 0 THEN <<>>
        ELSE F[i - 1] \o [j \in 1 .. Len(get_neighbors(w, h, cells[i])) |->
                            <<cells[i], get_neighbors(w, h, cells[i])[j]>>]
  IN F[w * h]

\* The edge list KruskalGenerator.generate builds: for every cell in row-major
\* order, the edge to its right neighbor, then the edge to its bottom neighbor.
KruskalEdges(w, h) ==
  LET cells == RowMajor(w, h)
      F[i \in 0 .. w * h] ==
        IF i = 0 THEN <<>>
        ELSE LET x == cells[i][1]
                 y == cells[i][2]
                 right == IF x < w - 1 /\ get_cell(w, h, x + 1, y) # None
                          THEN <<<<cells[i], <<x + 1, y>>>>>> ELSE <<>>
                 bottom == IF y < h - 1 /\ get_cell(w, h, x, y + 1) # None
                           THEN <<<<cells[i], <<x, y + 1>>>>>> ELSE <<>>
             IN F[i - 1] \o right \o bottom
  IN F[w * h]

Swap(x, i, j) == [x EXCEPT ![i] = x[j], ![j] = x[i]]

\* find of KruskalGenerator.generate: the root of cell, and the parent and rank
\* dictionaries it leaves (the cell entered on first sight, the path compressed).
RECURSIVE find(_, _)
find(uf, cell) ==
  LET uf1 == IF cell \notin DOMAIN uf.parent
             THEN [parent |-> (cell :> cell) @@ uf.parent, rank |-> (cell :> 0) @@ uf.rank]
             ELSE uf
  IN IF uf1.parent[cell] # cell
     THEN LET sub == find(uf1, uf1.parent[cell])
          IN [uf |-> [sub.uf EXCEPT !.parent[cell] = sub.root], root |-> sub.root]
     ELSE [uf |-> uf1, root |-> cell]

\* union that does not compare the two roots.
union_unchecked(uf, cell1, cell2) ==
  LET f1 == find(uf, cell1)
      f2 == find(f1.uf, cell2)
      root1 == f1.root
      root2 == f2.root
      u == f2.uf
  IN IF u.rank[root1] < u.rank[root2]
     THEN [uf |-> [u EXCEPT !.parent[root1] = root2], ret |-> TRUE]
     ELSE IF u.rank[root1] > u.rank[root2]
          THEN [uf |-> [u EXCEPT !.parent[root2] = root1], ret |-> TRUE]
     ELSE [uf |-> [u EXCEPT !.parent[root2] = root1, !.rank[root1] = @ + 1], ret |-> TRUE]

\* union of KruskalGenerator.generate: what it returns, and the dictionaries it leaves.
union(uf, cell1, cell2) ==
  LET f1 == find(uf, cell1)
      f2 == find(f1.uf, cell2)
      root1 == f1.root
      root2 == f2.root
      u == f2.uf
  IN IF root1 = root2 THEN [uf |-> u, ret |-> FALSE]
     ELSE IF u.rank[root1] < u.rank[root2]
          THEN [uf |-> [u EXCEPT !.parent[root1] = root2], ret |-> TRUE]
     ELSE IF u.rank[root1] > u.rank[root2]
          THEN [uf |-> [u EXCEPT !.parent[root2] = root1], ret |-> TRUE]
     ELSE [uf |-> [u EXCEPT !.parent[root2] = root1, !.rank[root1] = @ + 1], ret |-> TRUE]

EmptyDict == [c \in {} |-> c]

\* KruskalGenerator.generate, to the head of the loop of random.shuffle(edges).
KruskalBegin(i) ==
  /\ Enter(i, "kruskal")
  /\ loc' = [edges |-> KruskalEdges(width, height), i |-> Len(KruskalEdges(width, height)) - 1,
             idx |-> 1, uf |-> [parent |-> EmptyDict, rank |-> EmptyDict], iters |-> 0]
  /\ grid' = reset_maze(grid)
  /\ pc' = "kruskal_shuffle"
  /\ UNCHANGED random

\* One iteration of the loop of random.shuffle(edges), which runs i (counted
\* from 0) from the last index down to 1: a draw j below i + 1 and the exchange
\* of edges[i] and edges[j].
KruskalShuffle ==
  /\ pc = "kruskal_shuffle"
  /\ loc.i >= 1
  /\ \E d \in Draws(random, loc.i + 1) :
       /\ loc' = [loc EXCEPT !.edges = Swap(@, loc.i + 1, d.k + 1), !.i = @ - 1]
       /\ random' = d.r
  /\ UNCHANGED <<width, height, grid, start, end, solution_path, pc, last, gens, runs>>

\* random.shuffle returns, and the loop over the shuffled edges starts.
KruskalShuffled ==
  /\ pc = "kruskal_shuffle"
  /\ loc.i < 1
  /\ pc' = "kruskal"
  /\ UNCHANGED <<width, height, grid, start, end, solution_path, loc, random, last, gens, runs>>

\* One iteration of the loop of KruskalGenerator.generate over the edges.
KruskalStep ==
  /\ pc = "kruskal"
  /\ loc.idx <= Len(loc.edges)
  /\ LET cell1 == loc.edges[loc.idx][1]
         cell2 == loc.edges[loc.idx][2]
         u == union(loc.uf, cell1, cell2)
     IN /\ grid' = IF u.ret THEN remove_wall_between(grid, cell1, cell2) ELSE grid
        /\ loc' = [loc EXCEPT !.uf = u.uf, !.idx = @ + 1, !.iters = @ + 1]
  /\ UNCHANGED <<width, height, start, end, solution_path, pc, random, last, gens, runs>>

\* x in s, for a list s.
InSeq(x, s) == \E i \in 1 .. Len(s) : s[i] = x

\* list.index(x), counted from 1.
IndexOf(x, s) == CHOOSE i \in 1 .. Len(s) : s[i] = x /\ \A j \in 1 .. i - 1 : s[j] # x

\* list.remove(x) when x is in s: s without the first x.
Remove(s, x) == IF InSeq(x, s) THEN Pop(s, IndexOf(x, s) - 1) ELSE s

\* WilsonGenerator.generate, to the head of its outer loop.
WilsonBegin(i) ==
  /\ Enter(i, "wilson")
  /\ \E rc \in get_random_cell(random, width, height) :
       /\ grid' = [reset_maze(grid) EXCEPT ![rc.cell].visited = TRUE]
       /\ loc' = [unvisited |-> SelectSeq(RowMajor(width, height), LAMBDA c : c # rc.cell),
                  path |-> <<>>, current |-> None, iters |-> 0]
       /\ random' = rc.r
  /\ pc' = "wilson"

\* The outer loop of WilsonGenerator.generate starts a walk at a random unvisited cell.
WilsonPick ==
  /\ pc = "wilson"
  /\ loc.unvisited # <<>>
  /\ \E d \in Draws(random, Len(loc.unvisited)) :
       /\ loc' = [loc EXCEPT !.current = loc.unvisited[d.k + 1],
                             !.path = <<loc.unvisited[d.k + 1]>>,
                             !.iters = @ + 1]
       /\ random' = d.r
  /\ pc' = "wilson_walk"
  /\ UNCHANGED <<width, height, grid, start, end, solution_path, last, gens, runs>>

\* The step of the random walk with neighbors[0] for random.choice(neighbors).
WilsonWalkFirst(from, to) ==
  /\ pc = "wilson_walk"
  /\ loc.current = from
  /\ ~grid[from].visited
  /\ LET neighbors == get_neighbors(width, height, from)
     IN /\ neighbors # <<>>
        /\ LET next_cell == neighbors[1]
           IN /\ next_cell = to
              /\ loc' = [loc EXCEPT
                           !.path = IF InSeq(next_cell, loc.path)
                                    THEN SubSeq(loc.path, 1, IndexOf(next_cell, loc.path))
                                    ELSE Append(loc.path, next_cell),
                           !.current = next_cell]
              /\ random' = random
  /\ UNCHANGED <<width, height, grid, start, end, solution_path, pc, last, gens, runs>>

\* The step of the random walk that appends the next cell without erasing a loop.
WilsonWalkNoErase(from, to) ==
  /\ pc = "wilson_walk"
  /\ loc.current = from
  /\ ~grid[from].visited
  /\ LET neighbors == get_neighbors(width, height, from)
     IN /\ neighbors # <<>>
        /\ \E d \in Draws(random, Len(neighbors)) :
             LET next_cell == neighbors[d.k + 1]
             IN /\ next_cell = to
                /\ loc' = [loc EXCEPT !.path = Append(loc.path, next_cell),
                                      !.current = next_cell]
                /\ random' = d.r
  /\ UNCHANGED <<width, height, grid, start, end, solution_path, pc, last, gens, runs>>

\* One iteration of the random walk of WilsonGenerator.generate: the step from
\* cell `from` to its neighbor `to`.
WilsonWalk(from, to) ==
  /\ pc = "wilson_walk"
  /\ loc.current = from
  /\ ~grid[from].visited
  /\ LET neighbors == get_neighbors(width, height, from)
     IN /\ neighbors # <<>>
        /\ \E d \in Draws(random, Len(neighbors)) :
             LET next_cell == neighbors[d.k + 1]
             IN /\ next_cell = to
                /\ loc' = [loc EXCEPT
                             !.path = IF InSeq(next_cell, loc.path)
                                      THEN SubSeq(loc.path, 1, IndexOf(next_cell, loc.path))
                                      ELSE Append(loc.path, next_cell),
                             !.current = next_cell]
                /\ random' = d.r
  /\ UNCHANGED <<width, height, grid, start, end, solution_path, pc, last, gens, runs>>

\* The loop of WilsonGenerator.generate that adds path to the maze, from index i.
RECURSIVE AddPath(_, _, _)
AddPath(st, path, i) ==
  IF i > Len(path) - 1 THEN st
  ELSE AddPath([grid |-> remove_wall_between(
                           [st.grid EXCEPT ![path[i]].visited = TRUE], path[i], path[i + 1]),
                unvisited |-> Remove(st.unvisited, path[i])],
               path, i + 1)

\* The walk of WilsonGenerator.generate has ended: the path is added to the maze
\* and the unvisited list updated.
WilsonCarve ==
  /\ pc = "wilson_walk"
  /\ grid[loc.current].visited \/ get_neighbors(width, height, loc.current) = <<>>
  /\ LET st == AddPath([grid |-> grid, unvisited |-> loc.unvisited], loc.path, 1)
     IN /\ grid' = st.grid
        /\ loc' = [loc EXCEPT
                     !.unvisited = SelectSeq(st.unvisited, LAMBDA c : ~st.grid[c].visited)]
  /\ pc' = "wilson"
  /\ UNCHANGED <<width, height, start, end, solution_path, random, last, gens, runs>>

Walls(g) == [c \in DOMAIN g |-> g[c].walls]

\* Whether the loop of the running generate call has ended.
LoopDone ==
  \/ pc = "dfs" /\ loc.stack = <<>>
  \/ pc = "prim" /\ loc.walls = <<>>
  \/ pc = "kruskal" /\ loc.idx > Len(loc.edges)
  \/ pc = "wilson" /\ loc.unvisited = <<>>

\* generate returns.
GenReturn ==
  /\ pc # "idle"
  /\ LoopDone
  /\ pc' = "idle"
  /\ loc' = <<>>
  /\ LET i == last.gen
     IN IF gens[i].seed = NoSeed
        THEN UNCHANGED <<gens, runs>>
        ELSE /\ runs' = Append(runs, [alg |-> gens[i].alg, seed |-> gens[i].seed,
                                      seen |-> gens[i].seen, layout |-> Walls(grid)])
             /\ gens' = [gens EXCEPT ![i].seen = @ \cup {"same_seed"}]
  /\ UNCHANGED <<width, height, grid, start, end, solution_path, random, last>>

\* Maze.remove_wall_between(cell1, cell2), called by the caller on two cells of the grid.
RemoveWallBetween(cell1, cell2) ==
  /\ pc = "idle"
  /\ grid' = remove_wall_between(grid, cell1, cell2)
  /\ last' = [op |-> "remove_wall_between", cell1 |-> cell1, cell2 |-> cell2,
              ret |-> are_adjacent(cell1, cell2)]
  /\ UNCHANGED <<width, height, start, end, solution_path, pc, loc, random, gens, runs>>

\* set_start that does not clear the flag of the previous start cell.
SetStartKeepFlag(x, y) ==
  /\ pc = "idle"
  /\ LET cell == get_cell(width, height, x, y)
     IN IF cell # None
        THEN /\ grid' = [grid EXCEPT ![cell].is_start = TRUE]
             /\ start' = cell
             /\ last' = [op |-> "set_start", x |-> x, y |-> y, ret |-> TRUE]
        ELSE /\ UNCHANGED <<grid, start>>
             /\ last' = [op |-> "set_start", x |-> x, y |-> y, ret |-> FALSE]
  /\ UNCHANGED <<width, height, end, solution_path, pc, loc, random, gens, runs>>

\* Maze.set_start(x, y)
SetStart(x, y) ==
  /\ pc = "idle"
  /\ LET cell == get_cell(width, height, x, y)
     IN IF cell # None
        THEN /\ grid' = [c \in DOMAIN grid |->
                           [grid[c] EXCEPT !.is_start = IF c = cell THEN TRUE
                                                        ELSE IF c = start THEN FALSE ELSE @]]
             /\ start' = cell
             /\ last' = [op |-> "set_start", x |-> x, y |-> y, ret |-> TRUE]
        ELSE /\ UNCHANGED <<grid, start>>
             /\ last' = [op |-> "set_start", x |-> x, y |-> y, ret |-> FALSE]
  /\ UNCHANGED <<width, height, end, solution_path, pc, loc, random, gens, runs>>

\* Maze.set_end(x, y)
SetEnd(x, y) ==
  /\ pc = "idle"
  /\ LET cell == get_cell(width, height, x, y)
     IN IF cell # None
        THEN /\ grid' = [c \in DOMAIN grid |->
                           [grid[c] EXCEPT !.is_end = IF c = cell THEN TRUE
                                                      ELSE IF c = end THEN FALSE ELSE @]]
             /\ end' = cell
             /\ last' = [op |-> "set_end", x |-> x, y |-> y, ret |-> TRUE]
        ELSE /\ UNCHANGED <<grid, end>>
             /\ last' = [op |-> "set_end", x |-> x, y |-> y, ret |-> FALSE]
  /\ UNCHANGED <<width, height, start, solution_path, pc, loc, random, gens, runs>>

\* reset_solution that also clears the visited flags.
reset_solution_and_visited(g) ==
  [c \in DOMAIN g |-> [g[c] EXCEPT !.distance = NoDist, !.parent = None, !.visited = FALSE]]

\* Maze.reset_solution: the cells it leaves (solution_path becomes empty).
reset_solution(g) ==
  [c \in DOMAIN g |-> [g[c] EXCEPT !.distance = NoDist, !.parent = None]]

\* Maze.reset_solution(), called by the caller.
ResetSolution ==
  /\ pc = "idle"
  /\ grid' = reset_solution(grid)
  /\ solution_path' = <<>>
  /\ last' = [op |-> "reset_solution"]
  /\ UNCHANGED <<width, height, start, end, pc, loc, random, gens, runs>>

\* Maze.reset_visited(), called by the caller.
ResetVisited ==
  /\ pc = "idle"
  /\ grid' = reset_visited(grid)
  /\ last' = [op |-> "reset_visited"]
  /\ UNCHANGED <<width, height, start, end, solution_path, pc, loc, random, gens, runs>>

\* MazeSolver._reconstruct_path, before the list is reversed.
RECURSIVE ParentChain(_, _)
ParentChain(g, current) ==
  IF current = None THEN <<>> ELSE <<current>> \o ParentChain(g, g[current].parent)

Reverse(s) == [i \in 1 .. Len(s) |-> s[Len(s) + 1 - i]]

\* _reconstruct_path whose loop stops at the cell that has no parent.
reconstruct_path_no_start(g, end_cell) ==
  LET chain == ParentChain(g, end_cell)
  IN Reverse(SubSeq(chain, 1, Len(chain) - 1))

\* _reconstruct_path that appends the end cell before it follows the parents.
reconstruct_path_end_twice(g, end_cell) ==
  Reverse(<<end_cell>> \o ParentChain(g, end_cell))

\* MazeSolver._reconstruct_path
reconstruct_path(g, end_cell) == Reverse(ParentChain(g, end_cell))

\* _get_accessible_neighbors that does not look at the walls.
get_accessible_neighbors_no_walls(g, w, h, cell) == get_neighbors(w, h, cell)

\* MazeSolver._get_accessible_neighbors
get_accessible_neighbors(g, w, h, cell) ==
  LET nb(i) == get_cell(w, h, step(cell, DirSeq[i])[1], step(cell, DirSeq[i])[2])
      F[i \in 0 .. 4] ==
        IF i = 0 THEN <<>>
        ELSE IF DirSeq[i] \notin g[cell].walls /\ nb(i) # None
             THEN Append(F[i - 1], nb(i))
             ELSE F[i - 1]
  IN F[4]

\* solve returning the path without the assignment to maze.solution_path.
FoundNotStored(g, end_cell) ==
  [ret |-> reconstruct_path(g, end_cell), grid |-> g, solution_path |-> <<>>]

\* What solve leaves when it returns the path it reconstructs from end_cell.
Found(g, end_cell) ==
  [ret |-> reconstruct_path(g, end_cell), grid |-> g,
   solution_path |-> reconstruct_path(g, end_cell)]

\* What solve leaves when it returns [] after reset_solution.
NotFound(g) == [ret |-> <<>>, grid |-> g, solution_path |-> <<>>]

\* The loop of BreadthFirstSearchSolver.solve with queue.pop() for queue.popleft().
RECURSIVE BFSLoopPop(_, _, _, _, _, _)
BFSLoopPop(g, w, h, e, queue, visited) ==
  IF queue = <<>> THEN NotFound(g)
  ELSE LET current == queue[Len(queue)]
           nbrs == get_accessible_neighbors(g, w, h, current)
           F[i \in 0 .. Len(nbrs)] ==
             IF i = 0
             THEN [g |-> g, queue |-> SubSeq(queue, 1, Len(queue) - 1), visited |-> visited]
             ELSE LET p == F[i - 1]
                  IN IF nbrs[i] \notin p.visited
                     THEN [g |-> [p.g EXCEPT ![nbrs[i]].distance = p.g[current].distance + 1,
                                             ![nbrs[i]].parent = current],
                           queue |-> Append(p.queue, nbrs[i]),
                           visited |-> p.visited \cup {nbrs[i]}]
                     ELSE p
           st == F[Len(nbrs)]
       IN IF current = e THEN Found(g, current)
          ELSE BFSLoopPop(st.g, w, h, e, st.queue, st.visited)

\* The loop of BreadthFirstSearchSolver.solve.
RECURSIVE BFSLoop(_, _, _, _, _, _)
BFSLoop(g, w, h, e, queue, visited) ==
  IF queue = <<>> THEN NotFound(g)
  ELSE LET current == Head(queue)
           nbrs == get_accessible_neighbors(g, w, h, current)
           F[i \in 0 .. Len(nbrs)] ==
             IF i = 0 THEN [g |-> g, queue |-> Tail(queue), visited |-> visited]
             ELSE LET p == F[i - 1]
                  IN IF nbrs[i] \notin p.visited
                     THEN [g |-> [p.g EXCEPT ![nbrs[i]].distance = p.g[current].distance + 1,
                                             ![nbrs[i]].parent = current],
                           queue |-> Append(p.queue, nbrs[i]),
                           visited |-> p.visited \cup {nbrs[i]}]
                     ELSE p
           st == F[Len(nbrs)]
       IN IF current = e THEN Found(g, current)
          ELSE BFSLoop(st.g, w, h, e, st.queue, st.visited)

\* BreadthFirstSearchSolver.solve after a reset_solution that leaves solution_path as it was.
BFSSolveStalePath(g, w, h, s, e, sp) ==
  IF s = None \/ e = None THEN [ret |-> <<>>, grid |-> g, solution_path |-> sp]
  ELSE LET r == BFSLoop([reset_solution(g) EXCEPT ![s].distance = 0], w, h, e, <<s>>, {s})
       IN IF r.ret = <<>> THEN [r EXCEPT !.solution_path = sp] ELSE r

\* BreadthFirstSearchSolver.solve
BFSSolve(g, w, h, s, e, sp) ==
  IF s = None \/ e = None THEN [ret |-> <<>>, grid |-> g, solution_path |-> sp]
  ELSE BFSLoop([reset_solution(g) EXCEPT ![s].distance = 0], w, h, e, <<s>>, {s})

\* The loop of DepthFirstSearchSolver.solve.
RECURSIVE DFSLoop(_, _, _, _, _, _)
DFSLoop(g, w, h, e, stack, visited) ==
  IF stack = <<>> THEN NotFound(g)
  ELSE LET current == stack[Len(stack)]
           nbrs == get_accessible_neighbors(g, w, h, current)
           F[i \in 0 .. Len(nbrs)] ==
             IF i = 0
             THEN [g |-> g, stack |-> SubSeq(stack, 1, Len(stack) - 1), visited |-> visited]
             ELSE LET p == F[i - 1]
                  IN IF nbrs[i] \notin p.visited
                     THEN [g |-> [p.g EXCEPT ![nbrs[i]].parent = current],
                           stack |-> Append(p.stack, nbrs[i]),
                           visited |-> p.visited \cup {nbrs[i]}]
                     ELSE p
           st == F[Len(nbrs)]
       IN IF current = e THEN Found(g, current)
          ELSE DFSLoop(st.g, w, h, e, st.stack, st.visited)

\* DepthFirstSearchSolver.solve
DFSSolve(g, w, h, s, e, sp) ==
  IF s = None \/ e = None THEN [ret |-> <<>>, grid |-> g, solution_path |-> sp]
  ELSE DFSLoop(reset_solution(g), w, h, e, <<s>>, {s})

\* Cell.__lt__
CellLt(c1, c2) == c1[1] < c2[1] \/ (c1[1] = c2[1] /\ c1[2] < c2[2])

\* The order of the (priority, cell) tuples of a priority queue.
EntryLt(a, b) == a[1] < b[1] \/ (a[1] = b[1] /\ CellLt(a[2], b[2]))

\* list.pop() for heapq.heappop: the position of the last entry.
HeapLast(pq) == Len(pq)

\* heapq.heappop: the position in pq of the entry it returns, the smallest one.
HeapMin(pq) == CHOOSE i \in 1 .. Len(pq) :
                 /\ \A j \in 1 .. Len(pq) : ~EntryLt(pq[j], pq[i])
                 /\ \A j \in 1 .. i - 1 : pq[j] # pq[i]

\* The loop of DijkstraSolver.solve without the `neighbor.distance is None` case.
RECURSIVE DijkstraLoopNoNone(_, _, _, _, _, _)
DijkstraLoopNoNone(g, w, h, e, pq, visited) ==
  IF pq = <<>> THEN NotFound(g)
  ELSE LET m == HeapMin(pq)
           current_distance == pq[m][1]
           current == pq[m][2]
           rest == Pop(pq, m - 1)
           nbrs == get_accessible_neighbors(g, w, h, current)
           visited1 == visited \cup {current}
           F[i \in 0 .. Len(nbrs)] ==
             IF i = 0 THEN [g |-> g, pq |-> rest]
             ELSE LET p == F[i - 1]
                      new_distance == current_distance + 1
                  IN IF nbrs[i] \notin visited1 /\ new_distance < p.g[nbrs[i]].distance
                     THEN [g |-> [p.g EXCEPT ![nbrs[i]].distance = new_distance,
                                             ![nbrs[i]].parent = current],
                           pq |-> Append(p.pq, <<new_distance, nbrs[i]>>)]
                     ELSE p
           st == F[Len(nbrs)]
       IN IF current \in visited THEN DijkstraLoopNoNone(g, w, h, e, rest, visited)
          ELSE IF current = e THEN Found(g, current)
          ELSE DijkstraLoopNoNone(st.g, w, h, e, st.pq, visited1)

\* The loop of DijkstraSolver.solve.
RECURSIVE DijkstraLoop(_, _, _, _, _, _)
DijkstraLoop(g, w, h, e, pq, visited) ==
  IF pq = <<>> THEN NotFound(g)
  ELSE LET m == HeapMin(pq)
           current_distance == pq[m][1]
           current == pq[m][2]
           rest == Pop(pq, m - 1)
           nbrs == get_accessible_neighbors(g, w, h, current)
           visited1 == visited \cup {current}
           F[i \in 0 .. Len(nbrs)] ==
             IF i = 0 THEN [g |-> g, pq |-> rest]
             ELSE LET p == F[i - 1]
                      new_distance == current_distance + 1
                  IN IF nbrs[i] \notin visited1
                        /\ (p.g[nbrs[i]].distance = NoDist
                            \/ new_distance < p.g[nbrs[i]].distance)
                     THEN [g |-> [p.g EXCEPT ![nbrs[i]].distance = new_distance,
                                             ![nbrs[i]].parent = current],
                           pq |-> Append(p.pq, <<new_distance, nbrs[i]>>)]
                     ELSE p
           st == F[Len(nbrs)]
       IN IF current \in visited THEN DijkstraLoop(g, w, h, e, rest, visited)
          ELSE IF current = e THEN Found(g, current)
          ELSE DijkstraLoop(st.g, w, h, e, st.pq, visited1)

\* DijkstraSolver.solve that returns early only for an unset start.
DijkstraSolveNoEndCheck(g, w, h, s, e, sp) ==
  IF s = None THEN [ret |-> <<>>, grid |-> g, solution_path |-> sp]
  ELSE DijkstraLoop([reset_solution(g) EXCEPT ![s].distance = 0], w, h, e, <<<<0, s>>>>, {})

\* DijkstraSolver.solve
DijkstraSolve(g, w, h, s, e, sp) ==
  IF s = None \/ e = None THEN [ret |-> <<>>, grid |-> g, solution_path |-> sp]
  ELSE DijkstraLoop([reset_solution(g) EXCEPT ![s].distance = 0], w, h, e, <<<<0, s>>>>, {})

\* heuristic with the squared Euclidean distance to the end.
heuristic_squared(cell, e) ==
  (cell[1] - e[1]) * (cell[1] - e[1]) + (cell[2] - e[2]) * (cell[2] - e[2])

\* heuristic of AStarSolver.solve
heuristic(cell, e) == Abs(cell[1] - e[1]) + Abs(cell[2] - e[2])

\* The loop of AStarSolver.solve.
RECURSIVE AStarLoop(_, _, _, _, _, _, _, _)
AStarLoop(g, w, h, e, pq, g_scores, f_scores, visited) ==
  IF pq = <<>> THEN NotFound(g)
  ELSE LET m == HeapMin(pq)
           current == pq[m][2]
           rest == Pop(pq, m - 1)
           nbrs == get_accessible_neighbors(g, w, h, current)
           visited1 == visited \cup {current}
           F[i \in 0 .. Len(nbrs)] ==
             IF i = 0 THEN [g |-> g, pq |-> rest, g_scores |-> g_scores, f_scores |-> f_scores]
             ELSE LET p == F[i - 1]
                      tentative_g == p.g_scores[current] + 1
                      f_score == tentative_g + heuristic(nbrs[i], e)
                  IN IF nbrs[i] \in visited1 THEN p
                     ELSE IF nbrs[i] \notin DOMAIN p.g_scores \/ tentative_g < p.g_scores[nbrs[i]]
                     THEN [g |-> [p.g EXCEPT ![nbrs[i]].parent = current,
                                             ![nbrs[i]].distance = tentative_g],
                           pq |-> Append(p.pq, <<f_score, nbrs[i]>>),
                           g_scores |-> (nbrs[i] :> tentative_g) @@ p.g_scores,
                           f_scores |-> (nbrs[i] :> f_score) @@ p.f_scores]
                     ELSE p
           st == F[Len(nbrs)]
       IN IF current \in visited THEN AStarLoop(g, w, h, e, rest, g_scores, f_scores, visited)
          ELSE IF current = e THEN Found(g, current)
          ELSE AStarLoop(st.g, w, h, e, st.pq, st.g_scores, st.f_scores, visited1)

\* AStarSolver.solve
AStarSolve(g, w, h, s, e, sp) ==
  IF s = None \/ e = None THEN [ret |-> <<>>, grid |-> g, solution_path |-> sp]
  ELSE AStarLoop([reset_solution(g) EXCEPT ![s].distance = 0], w, h, e,
                 <<<<heuristic(s, e), s>>>>, s :> 0, s :> heuristic(s, e), {})

\* WallFollowerSolver._turn_right
turn_right(d) ==
  CASE d = "NORTH" -> "EAST"
    [] d = "EAST" -> "SOUTH"
    [] d = "SOUTH" -> "WEST"
    [] d = "WEST" -> "NORTH"

\* WallFollowerSolver._turn_left
turn_left(d) ==
  CASE d = "NORTH" -> "WEST"
    [] d = "WEST" -> "SOUTH"
    [] d = "SOUTH" -> "EAST"
    [] d = "EAST" -> "NORTH"

\* The loop of WallFollowerSolver.solve with the facing left out of the state tuple.
RECURSIVE WallFollowerLoopNoFacing(_, _, _, _, _, _, _, _, _)
WallFollowerLoopNoFacing(g, w, h, e, current, path, visited_states, facing, iters) ==
  IF current = e
  THEN [ret |-> path, grid |-> g, solution_path |-> path, iters |-> iters, looped |-> FALSE]
  ELSE LET state == <<current[1], current[2]>>
           right_direction == turn_right(facing)
           right_cell == get_cell(w, h, step(current, right_direction)[1],
                                  step(current, right_direction)[2])
           seen == visited_states \cup {state}
       IN IF state \in visited_states
          THEN [ret |-> <<>>, grid |-> g, solution_path |-> <<>>, iters |-> iters + 1,
                looped |-> TRUE]
          ELSE IF right_direction \notin g[current].walls /\ right_cell # None
          THEN WallFollowerLoopNoFacing(g, w, h, e, right_cell, Append(path, right_cell), seen,
                                        right_direction, iters + 1)
          ELSE LET facing1 == IF right_direction \notin g[current].walls
                              THEN right_direction ELSE facing
                   ahead1 == get_cell(w, h, step(current, facing1)[1], step(current, facing1)[2])
               IN IF facing1 \notin g[current].walls /\ ahead1 # None
                  THEN WallFollowerLoopNoFacing(g, w, h, e, ahead1, Append(path, ahead1), seen,
                                                facing1, iters + 1)
                  ELSE WallFollowerLoopNoFacing(g, w, h, e, current, path, seen,
                                                turn_left(facing1), iters + 1)

\* The loop of WallFollowerSolver.solve with a loop detection that returns only
\* when a state is seen for the third time.
RECURSIVE WallFollowerLoopThird(_, _, _, _, _, _, _, _, _)
WallFollowerLoopThird(g, w, h, e, current, path, visited_states, facing, iters) ==
  IF current = e
  THEN [ret |-> path, grid |-> g, solution_path |-> path, iters |-> iters, looped |-> FALSE]
  ELSE LET state == <<current[1], current[2], facing>>
           right_direction == turn_right(facing)
           right_cell == get_cell(w, h, step(current, right_direction)[1],
                                  step(current, right_direction)[2])
           seen == IF state \in visited_states THEN visited_states \cup {<<state>>}
                   ELSE visited_states \cup {state}
       IN IF <<state>> \in visited_states
          THEN [ret |-> <<>>, grid |-> g, solution_path |-> <<>>, iters |-> iters + 1,
                looped |-> TRUE]
          ELSE IF right_direction \notin g[current].walls /\ right_cell # None
          THEN WallFollowerLoopThird(g, w, h, e, right_cell, Append(path, right_cell), seen,
                                     right_direction, iters + 1)
          ELSE LET facing1 == IF right_direction \notin g[current].walls
                              THEN right_direction ELSE facing
                   ahead1 == get_cell(w, h, step(current, facing1)[1], step(current, facing1)[2])
               IN IF facing1 \notin g[current].walls /\ ahead1 # None
                  THEN WallFollowerLoopThird(g, w, h, e, ahead1, Append(path, ahead1), seen,
                                             facing1, iters + 1)
                  ELSE WallFollowerLoopThird(g, w, h, e, current, path, seen,
                                             turn_left(facing1), iters + 1)

\* The loop of WallFollowerSolver.solve; iters counts the iterations begun, and
\* looped tells whether the loop detection returned.
RECURSIVE WallFollowerLoop(_, _, _, _, _, _, _, _, _)
WallFollowerLoop(g, w, h, e, current, path, visited_states, facing, iters) ==
  IF current = e
  THEN [ret |-> path, grid |-> g, solution_path |-> path, iters |-> iters, looped |-> FALSE]
  ELSE LET state == <<current[1], current[2], facing>>
           right_direction == turn_right(facing)
           right_cell == get_cell(w, h, step(current, right_direction)[1],
                                  step(current, right_direction)[2])
           seen == visited_states \cup {state}
       IN IF state \in visited_states
          THEN [ret |-> <<>>, grid |-> g, solution_path |-> <<>>, iters |-> iters + 1,
                looped |-> TRUE]
          ELSE IF right_direction \notin g[current].walls /\ right_cell # None
          THEN WallFollowerLoop(g, w, h, e, right_cell, Append(path, right_cell), seen,
                                right_direction, iters + 1)
          ELSE LET facing1 == IF right_direction \notin g[current].walls
                              THEN right_direction ELSE facing
                   ahead1 == get_cell(w, h, step(current, facing1)[1], step(current, facing1)[2])
               IN IF facing1 \notin g[current].walls /\ ahead1 # None
                  THEN WallFollowerLoop(g, w, h, e, ahead1, Append(path, ahead1), seen,
                                        facing1, iters + 1)
                  ELSE WallFollowerLoop(g, w, h, e, current, path, seen,
                                        turn_left(facing1), iters + 1)

\* WallFollowerSolver.solve
WallFollowerSolve(g, w, h, s, e, sp) ==
  IF s = None \/ e = None
  THEN [ret |-> <<>>, grid |-> g, solution_path |-> sp, iters |-> 0, looped |-> FALSE]
  ELSE WallFollowerLoop(reset_solution(g), w, h, e, s, <<s>>, {}, "NORTH", 0)

Solvers == {"bfs", "dfs", "dijkstra", "astar", "wall_follower"}

\* solve of the solver named sv.
solve(sv, g, w, h, s, e, sp) ==
  CASE sv = "bfs" -> BFSSolve(g, w, h, s, e, sp)
    [] sv = "dfs" -> DFSSolve(g, w, h, s, e, sp)
    [] sv = "dijkstra" -> DijkstraSolve(g, w, h, s, e, sp)
    [] sv = "astar" -> AStarSolve(g, w, h, s, e, sp)
    [] sv = "wall_follower" -> WallFollowerSolve(g, w, h, s, e, sp)

\* A caller calls solve of the solver named sv on the grid.
Solve(sv) ==
  /\ pc = "idle"
  /\ \E r \in {solve(sv, grid, width, height, start, end, solution_path)} :
        /\ grid' = r.grid
        /\ solution_path' = r.solution_path
        /\ last' = [op |-> "solve", solver |-> sv] @@
                      [f \in DOMAIN r \ {"grid", "solution_path"} |-> r[f]]
  /\ UNCHANGED <<width, height, start, end, pc, loc, random, gens, runs>>

(***************************************************************************)
(* The loops of the solvers, one iteration at a time.  While a solve call  *)
(* runs, pc names the solver and loc holds the locals of its solve method. *)
(* The fields queued, order and turns of loc are not locals of the code:   *)
(* they record the cells appended to the queue so far, the cells added to  *)
(* the visited set so far, each in the order of the calls, and the number  *)
(* of left turns of the wall follower since its last move.                 *)
(***************************************************************************)

\* solve of the solver sv returns [] at once: start or end is not set.
SolveUnset(sv) ==
  /\ pc = "idle"
  /\ start = None \/ end = None
  /\ last' = [op |-> "solve", solver |-> sv, ret |-> <<>>]
  /\ UNCHANGED <<width, height, grid, start, end, solution_path, pc, loc, random, gens, runs>>

\* solve returns the path it reconstructs from the end cell.
SolveFound(sv) ==
  /\ solution_path' = reconstruct_path(grid, end)
  /\ last' = [op |-> "solve", solver |-> sv, ret |-> reconstruct_path(grid, end)]
  /\ pc' = "idle"
  /\ loc' = <<>>
  /\ UNCHANGED <<width, height, grid, start, end, random, gens, runs>>

\* The loop of a solver ends with nothing left to take: solve returns [].
SolveFailed(sv) ==
  /\ last' = [op |-> "solve", solver |-> sv, ret |-> <<>>]
  /\ pc' = "idle"
  /\ loc' = <<>>
  /\ UNCHANGED <<width, height, grid, start, end, solution_path, random, gens, runs>>

\* BreadthFirstSearchSolver.solve, to the head of its loop.
BFSEnter ==
  /\ pc = "idle"
  /\ start # None /\ end # None
  /\ grid' = [reset_solution(grid) EXCEPT ![start].distance = 0]
  /\ solution_path' = <<>>
  /\ loc' = [queue |-> <<start>>, visited |-> {start}, queued |-> <<start>>]
  /\ pc' = "bfs"
  /\ last' = [op |-> "solving", solver |-> "bfs"]
  /\ UNCHANGED <<width, height, start, end, random, gens, runs>>

\* The loop over the neighbors of BreadthFirstSearchSolver.solve without the
\* `neighbor not in visited` test.
BFSNeighborsAll(g, w, h, current, l) ==
  LET nbrs == get_accessible_neighbors(g, w, h, current)
      F[i \in 0 .. Len(nbrs)] ==
        IF i = 0 THEN [g |-> g, l |-> [l EXCEPT !.queue = Tail(@)]]
        ELSE LET p == F[i - 1]
             IN IF nbrs[i] # current /\ p.g[nbrs[i]].distance = NoDist
                THEN [g |-> [p.g EXCEPT ![nbrs[i]].distance = p.g[current].distance + 1,
                                        ![nbrs[i]].parent = current],
                      l |-> [queue |-> Append(p.l.queue, nbrs[i]),
                             visited |-> p.l.visited \cup {nbrs[i]},
                             queued |-> Append(p.l.queued, nbrs[i])]]
                ELSE [g |-> p.g,
                      l |-> [queue |-> Append(p.l.queue, nbrs[i]),
                             visited |-> p.l.visited,
                             queued |-> Append(p.l.queued, nbrs[i])]]
  IN F[Len(nbrs)]

\* The loop over the neighbors of BreadthFirstSearchSolver.solve, after
\* queue.popleft() has returned current: the cells and the locals it leaves.
BFSNeighbors(g, w, h, current, l) ==
  LET nbrs == get_accessible_neighbors(g, w, h, current)
      F[i \in 0 .. Len(nbrs)] ==
        IF i = 0 THEN [g |-> g, l |-> [l EXCEPT !.queue = Tail(@)]]
        ELSE LET p == F[i - 1]
             IN IF nbrs[i] \notin p.l.visited
                THEN [g |-> [p.g EXCEPT ![nbrs[i]].distance = p.g[current].distance + 1,
                                        ![nbrs[i]].parent = current],
                      l |-> [queue |-> Append(p.l.queue, nbrs[i]),
                             visited |-> p.l.visited \cup {nbrs[i]},
                             queued |-> Append(p.l.queued, nbrs[i])]]
                ELSE p
  IN F[Len(nbrs)]

\* One iteration of the loop of BreadthFirstSearchSolver.solve, or its end.
BFSIter ==
  /\ pc = "bfs"
  /\ IF loc.queue = <<>> THEN SolveFailed("bfs")
     ELSE IF Head(loc.queue) = end THEN SolveFound("bfs")
     ELSE \E st \in {BFSNeighbors(grid, width, height, Head(loc.queue), loc)} :
            /\ grid' = st.g
            /\ loc' = st.l
            /\ UNCHANGED <<width, height, start, end, solution_path, pc, random, last,
                           gens, runs>>

\* DijkstraSolver.solve, to the head of its loop.
DijkstraEnter ==
  /\ pc = "idle"
  /\ start # None /\ end # None
  /\ grid' = [reset_solution(grid) EXCEPT ![start].distance = 0]
  /\ solution_path' = <<>>
  /\ loc' = [pq |-> <<<<0, start>>>>, visited |-> {}, order |-> <<>>]
  /\ pc' = "dijkstra"
  /\ last' = [op |-> "solving", solver |-> "dijkstra"]
  /\ UNCHANGED <<width, height, start, end, random, gens, runs>>

\* The loop over the neighbors of DijkstraSolver.solve for the cell current
\* popped with current_distance; l holds the locals after visited.add(current).
DijkstraNeighbors(g, w, h, current_distance, current, l) ==
  LET nbrs == get_accessible_neighbors(g, w, h, current)
      F[i \in 0 .. Len(nbrs)] ==
        IF i = 0 THEN [g |-> g, l |-> l]
        ELSE LET p == F[i - 1]
                 new_distance == current_distance + 1
             IN IF nbrs[i] \notin p.l.visited
                   /\ (p.g[nbrs[i]].distance = NoDist
                       \/ new_distance < p.g[nbrs[i]].distance)
                THEN [g |-> [p.g EXCEPT ![nbrs[i]].distance = new_distance,
                                        ![nbrs[i]].parent = current],
                      l |-> [p.l EXCEPT !.pq = Append(@, <<new_distance, nbrs[i]>>)]]
                ELSE p
  IN F[Len(nbrs)]

\* One iteration of the loop of DijkstraSolver.solve, or its end.
DijkstraIter ==
  /\ pc = "dijkstra"
  /\ IF loc.pq = <<>> THEN SolveFailed("dijkstra")
     ELSE LET m == HeapMin(loc.pq)
              current_distance == loc.pq[m][1]
              current == loc.pq[m][2]
              popped == [loc EXCEPT !.pq = Pop(@, m - 1)]
              added == [popped EXCEPT !.visited = @ \cup {current},
                                      !.order = Append(@, current)]
          IN IF current \in loc.visited
             THEN /\ loc' = popped
                  /\ UNCHANGED <<width, height, grid, start, end, solution_path, pc, random,
                                 last, gens, runs>>
             ELSE IF current = end THEN SolveFound("dijkstra")
             ELSE \E st \in {DijkstraNeighbors(grid, width, height, current_distance,
                                               current, added)} :
                    /\ grid' = st.g
                    /\ loc' = st.l
                    /\ UNCHANGED <<width, height, start, end, solution_path, pc, random,
                                   last, gens, runs>>

\* AStarSolver.solve, to the head of its loop.
AStarEnter ==
  /\ pc = "idle"
  /\ start # None /\ end # None
  /\ grid' = [reset_solution(grid) EXCEPT ![start].distance = 0]
  /\ solution_path' = <<>>
  /\ loc' = [pq |-> <<<<heuristic(start, end), start>>>>, g_scores |-> start :> 0,
             f_scores |-> start :> heuristic(start, end), visited |-> {}, order |-> <<>>]
  /\ pc' = "astar"
  /\ last' = [op |-> "solving", solver |-> "astar"]
  /\ UNCHANGED <<width, height, start, end, random, gens, runs>>

\* The loop over the neighbors of AStarSolver.solve for the popped cell
\* current; l holds the locals after visited.add(current).
AStarNeighbors(g, w, h, e, current, l) ==
  LET nbrs == get_accessible_neighbors(g, w, h, current)
      F[i \in 0 .. Len(nbrs)] ==
        IF i = 0 THEN [g |-> g, l |-> l]
        ELSE LET p == F[i - 1]
                 tentative_g == p.l.g_scores[current] + 1
                 f_score == tentative_g + heuristic(nbrs[i], e)
             IN IF nbrs[i] \in p.l.visited THEN p
                ELSE IF nbrs[i] \notin DOMAIN p.l.g_scores
                        \/ tentative_g < p.l.g_scores[nbrs[i]]
                THEN [g |-> [p.g EXCEPT ![nbrs[i]].parent = current,
                                        ![nbrs[i]].distance = tentative_g],
                      l |-> [p.l EXCEPT !.pq = Append(@, <<f_score, nbrs[i]>>),
                                        !.g_scores = (nbrs[i] :> tentative_g) @@ @,
                                        !.f_scores = (nbrs[i] :> f_score) @@ @]]
                ELSE p
  IN F[Len(nbrs)]

\* One iteration of the loop of AStarSolver.solve, or its end.
AStarIter ==
  /\ pc = "astar"
  /\ IF loc.pq = <<>> THEN SolveFailed("astar")
     ELSE LET m == HeapMin(loc.pq)
              current == loc.pq[m][2]
              popped == [loc EXCEPT !.pq = Pop(@, m - 1)]
              added == [popped EXCEPT !.visited = @ \cup {current},
                                      !.order = Append(@, current)]
          IN IF current \in loc.visited
             THEN /\ loc' = popped
                  /\ UNCHANGED <<width, height, grid, start, end, solution_path, pc, random,
                                 last, gens, runs>>
             ELSE IF current = end THEN SolveFound("astar")
             ELSE \E st \in {AStarNeighbors(grid, width, height, end, current, added)} :
                    /\ grid' = st.g
                    /\ loc' = st.l
                    /\ UNCHANGED <<width, height, start, end, solution_path, pc, random,
                                   last, gens, runs>>

\* WallFollowerSolver.solve, to the head of its loop.
WallFollowerEnter ==
  /\ pc = "idle"
  /\ start # None /\ end # None
  /\ grid' = reset_solution(grid)
  /\ solution_path' = <<>>
  /\ loc' = [current |-> start, path |-> <<start>>, visited_states |-> {},
             facing |-> "NORTH", turns |-> 0]
  /\ pc' = "wall_follower"
  /\ last' = [op |-> "solving", solver |-> "wall_follower"]
  /\ UNCHANGED <<width, height, start, end, random, gens, runs>>

\* The body of the loop of WallFollowerSolver.solve without the attempt to move forward.
WallFollowerBodyNoForward(g, w, h, l) ==
  LET right_direction == turn_right(l.facing)
      right_cell == get_cell(w, h, step(l.current, right_direction)[1],
                             step(l.current, right_direction)[2])
      seen == l.visited_states \cup {<<l.current[1], l.current[2], l.facing>>}
  IN IF right_direction \notin g[l.current].walls /\ right_cell # None
     THEN [current |-> right_cell, path |-> Append(l.path, right_cell),
           visited_states |-> seen, facing |-> right_direction, turns |-> 0]
     ELSE [current |-> l.current, path |-> l.path, visited_states |-> seen,
           facing |-> turn_left(l.facing), turns |-> l.turns + 1]

\* The body of the loop of WallFollowerSolver.solve after the loop detection:
\* the locals it leaves.
WallFollowerBody(g, w, h, l) ==
  LET right_direction == turn_right(l.facing)
      right_cell == get_cell(w, h, step(l.current, right_direction)[1],
                             step(l.current, right_direction)[2])
      seen == l.visited_states \cup {<<l.current[1], l.current[2], l.facing>>}
      facing1 == IF right_direction \notin g[l.current].walls THEN right_direction
                 ELSE l.facing
      ahead1 == get_cell(w, h, step(l.current, facing1)[1], step(l.current, facing1)[2])
  IN IF right_direction \notin g[l.current].walls /\ right_cell # None
     THEN [current |-> right_cell, path |-> Append(l.path, right_cell),
           visited_states |-> seen, facing |-> right_direction, turns |-> 0]
     ELSE IF facing1 \notin g[l.current].walls /\ ahead1 # None
     THEN [current |-> ahead1, path |-> Append(l.path, ahead1),
           visited_states |-> seen, facing |-> facing1, turns |-> 0]
     ELSE [current |-> l.current, path |-> l.path, visited_states |-> seen,
           facing |-> turn_left(facing1), turns |-> l.turns + 1]

\* One iteration of the loop of WallFollowerSolver.solve, or its end.
WallFollowerIter ==
  /\ pc = "wall_follower"
  /\ IF loc.current = end
     THEN /\ solution_path' = loc.path
          /\ last' = [op |-> "solve", solver |-> "wall_follower", ret |-> loc.path,
                      turns |-> loc.turns, at |-> loc.current]
          /\ pc' = "idle"
          /\ loc' = <<>>
          /\ UNCHANGED <<width, height, grid, start, end, random, gens, runs>>
     ELSE IF <<loc.current[1], loc.current[2], loc.facing>> \in loc.visited_states
     THEN /\ last' = [op |-> "solve", solver |-> "wall_follower", ret |-> <<>>,
                      turns |-> loc.turns, at |-> loc.current]
          /\ pc' = "idle"
          /\ loc' = <<>>
          /\ UNCHANGED <<width, height, grid, start, end, solution_path, random, gens, runs>>
     ELSE /\ loc' = WallFollowerBody(grid, width, height, loc)
          /\ UNCHANGED <<width, height, grid, start, end, solution_path, pc, random, last,
                         gens, runs>>

\* A solver is called and runs its loop.
Search ==
  \/ \E sv \in Solvers : SolveUnset(sv)
  \/ BFSEnter
  \/ BFSIter
  \/ DijkstraEnter
  \/ DijkstraIter
  \/ AStarEnter
  \/ AStarIter
  \/ WallFollowerEnter
  \/ WallFollowerIter

\* The steps of the generate calls.
GenStep ==
  \/ DFSStep
  \/ PrimStep
  \/ KruskalShuffle
  \/ KruskalShuffled
  \/ KruskalStep
  \/ WilsonPick
  \/ \E from \in DOMAIN grid : \E to \in DOMAIN grid : WilsonWalk(from, to)
  \/ WilsonCarve
  \/ GenReturn

\* A caller calls generate of one of the generators.
Generate ==
  \E i \in DOMAIN gens :
    \/ DFSBegin(i)
    \/ PrimBegin(i)
    \/ KruskalBegin(i)
    \/ WilsonBegin(i)

\* The calls on the grid itself.
Carve == \E cell1 \in DOMAIN grid : \E cell2 \in DOMAIN grid : RemoveWallBetween(cell1, cell2)

Next ==
  \/ Generate
  \/ GenStep
  \/ Carve

Spec == Init /\ [][Next]_vars

\* The grid that remove_wall_between leaves when called on edges[i], edges[i+1], ...
RECURSIVE CarveAll(_, _, _)
CarveAll(g, edges, i) ==
  IF i > Len(edges) THEN g
  ELSE CarveAll(remove_wall_between(g, edges[i][1], edges[i][2]), edges, i + 1)

\* The edge lists a caller can carve: the sublists of the list of all the
\* pairs of adjacent cells.
RECURSIVE SubLists(_)
SubLists(edges) ==
  IF edges = <<>> THEN {<<>>}
  ELSE LET rest == SubLists(Tail(edges))
       IN rest \cup {<<Head(edges)>> \o r : r \in rest}

\* Maze.set_start and Maze.set_end on a grid where neither was set, None for a call not made.
WithEnds(g, s, e) ==
  [c \in DOMAIN g |-> [g[c] EXCEPT !.is_start = (c = s), !.is_end = (c = e)]]

\* A grid as its caller hands it to a solver: constructed, then any walls between
\* adjacent cells removed with remove_wall_between, then set_start and set_end
\* called or not.
InitSolve ==
  /\ \E d \in Dims(MaxCells) :
       /\ width = d[1]
       /\ height = d[2]
       /\ \E open \in SubLists(KruskalEdges(d[1], d[2])) :
            \E s \in Cells(d[1], d[2]) \cup {None} :
              \E e \in Cells(d[1], d[2]) \cup {None} :
                /\ grid = WithEnds(CarveAll([c \in Cells(d[1], d[2]) |-> NewCell], open, 1), s, e)
                /\ start = s
                /\ end = e
  /\ solution_path = <<>>
  /\ pc = "idle"
  /\ loc = <<>>
  /\ random = [seed |-> NoSeed, pos |-> 0, stream |-> [s \in Seeds |-> <<>>]]
  /\ last = [op |-> "init"]
  /\ gens = <<>>
  /\ runs = <<>>

NextSolve == \E sv \in Solvers : Solve(sv)

\* The solvers, on every grid a caller can have carved by hand.
SpecSolve == InitSolve /\ [][NextSolve]_vars

\* A grid and no generator yet.
InitSeed == InitDims(SeedCells, <<>>)

NextSeed ==
  \/ \E a \in Algs : \E seed \in Seeds \cup {NoSeed} : Construct(a, seed)
  \/ GetRandomCell
  \/ Generate
  \/ GenStep

\* Callers that construct generators, seeded or not, run them and draw random cells.
SpecSeed == InitSeed /\ [][NextSeed]_vars

NextLive ==
  \/ Generate
  \/ GenStep

\* The cells within k steps, through walls or not, of a cell that is in the maze.
Near(g, k) ==
  {c \in DOMAIN g :
     \E v \in DOMAIN g : g[v].visited /\ Abs(c[1] - v[1]) + Abs(c[2] - v[2]) <= k}

\* A step of the random walk from a cell k steps away from the maze to a
\* neighbor that is nearer to it.
WalkCloser(k) ==
  /\ pc = "wilson_walk"
  /\ loc.current \notin Near(grid, k - 1)
  /\ \E to \in Near(grid, k - 1) : WilsonWalk(loc.current, to)

\* The steps of a generate call in which the walk of Wilson's algorithm makes no choice.
Run ==
  \/ DFSStep
  \/ PrimStep
  \/ KruskalShuffle
  \/ KruskalShuffled
  \/ KruskalStep
  \/ WilsonPick
  \/ WilsonCarve
  \/ GenReturn

\* A generate call that has started keeps running: each loop takes its next
\* iteration and the call returns when its loop has ended.  The random walk of
\* Wilson's algorithm is fair: random.choice(neighbors) does not leave out one
\* neighbor for ever, so a walk that is again and again k steps away from the
\* maze eventually takes a step towards it.
Fairness ==
  /\ WF_vars(Run)
  /\ \A k \in 1 .. LiveCells - 1 : SF_vars(WalkCloser(k))

\* The generators alone, running to their end.
SpecLive == InitDims(LiveCells, Unseeded) /\ [][NextLive]_vars /\ Fairness

\* The calls of the Maze class, from its construction on, with the generators
\* and the solvers.
NextMaze ==
  \/ \E w \in -1 .. MazeCells : \E h \in -1 .. MazeCells :
       (w < 1 \/ h < 1 \/ w * h <= MazeCells) /\ NewMaze(w, h)
  \/ \E x \in -1 .. width : \E y \in -1 .. height : SetStart(x, y)
  \/ \E x \in -1 .. width : \E y \in -1 .. height : SetEnd(x, y)
  \/ Carve
  \/ ResetSolution
  \/ ResetVisited
  \/ \E sv \in Solvers : Solve(sv)
  \/ Generate
  \/ GenStep

SpecMaze == InitNew /\ [][NextMaze]_vars

\* The grids in which a caller has changed by hand, with Cell.remove_wall,
\* Cell.add_wall and Cell.visited, the walls and the visited flag of at most
\* DirtyCells cells, at least one of them.
InitRestart ==
  /\ \E d \in Dims(RestartCells) :
       /\ width = d[1]
       /\ height = d[2]
       /\ \E D \in SUBSET Cells(d[1], d[2]) :
            /\ D # {}
            /\ Cardinality(D) <= DirtyCells
            /\ \E ws \in [D -> SUBSET Direction] : \E vs \in [D -> BOOLEAN] :
                 /\ \E c \in D : ws[c] # Direction \/ vs[c]
                 /\ grid = [c \in Cells(d[1], d[2]) |->
                              IF c \in D THEN [NewCell EXCEPT !.walls = ws[c], !.visited = vs[c]]
                              ELSE NewCell]
  /\ start = None
  /\ end = None
  /\ solution_path = <<>>
  /\ pc = "idle"
  /\ loc = <<>>
  /\ random = [seed |-> NoSeed, pos |-> 0, stream |-> [s \in Seeds |-> <<>>]]
  /\ last = [op |-> "init"]
  /\ gens = Unseeded
  /\ runs = <<>>

\* The generators, called again and again on a grid left in any state.
SpecRestart == InitRestart /\ [][NextLive]_vars

\* The solvers, iteration by iteration, on every grid a caller can have carved by hand.
SpecSearch == InitSolve /\ [][Search]_vars

(***************************************************************************)
(* The properties.                                                         *)
(***************************************************************************)

\* generate has returned and the grid is as it left it.
Generated == pc = "idle" /\ last.op = "generate"

\* The direction of the step from cell a to the adjacent cell b.
DirTo(a, b) == CHOOSE d \in Direction : step(a, d) = b

\* The cells one step from cell c through a removed wall of c.
Open(g, c) == {n \in DOMAIN g : \E d \in Direction : d \notin g[c].walls /\ step(c, d) = n}

\* The cells reachable from the cells of `seen` through removed walls.
RECURSIVE Reach(_, _)
Reach(g, seen) ==
  LET more == seen \cup UNION {Open(g, c) : c \in seen}
  IN IF more = seen THEN seen ELSE Reach(g, more)

\* The number of internal walls removed: the pairs of adjacent cells, each
\* counted once from its west or north cell, with no wall on that side.
RemovedWalls(g, w, h) ==
  Cardinality({i \in 1 .. Len(KruskalEdges(w, h)) :
                 LET e == KruskalEdges(w, h)[i]
                 IN DirTo(e[1], e[2]) \notin g[e[1]].walls})

SpanningTree(g, w, h) ==
  /\ \A c \in DOMAIN g : Reach(g, {c}) = DOMAIN g
  /\ RemovedWalls(g, w, h) = w * h - 1

\* C1: when generate of any of the four generators returns, every cell is
\* reachable from every other cell through removed walls and exactly
\* width*height - 1 internal walls are removed.
C1_SpanningTree == Generated => SpanningTree(grid, width, height)

\* Wilson's generator has returned on the 3 x 2 grid, leaving a junction of three passages.
C1_Witness ==
  /\ Generated
  /\ last.alg = "wilson"
  /\ width = 3 /\ height = 2
  /\ \E c \in DOMAIN grid : Cardinality(grid[c].walls) = 1

\* C4: in every state of the grid, for every two adjacent cells a and b, a has
\* the wall facing b if and only if b has the wall facing a.
C4_WallSymmetry ==
  \A a \in DOMAIN grid : \A b \in DOMAIN grid :
    are_adjacent(a, b) => (DirTo(a, b) \in grid[a].walls <=> DirTo(b, a) \in grid[b].walls)

\* A caller has removed a wall by hand from a generated maze, closing a cycle.
C4_Witness ==
  /\ pc = "idle"
  /\ last.op = "remove_wall_between" /\ last.ret
  /\ \A c \in DOMAIN grid : grid[c].visited
  /\ RemovedWalls(grid, width, height) = width * height

\* The last cell of a non-empty list.
Last(s) == s[Len(s)]

\* C5: on a maze a generator has produced, for every start and end cell, the
\* BFS, Dijkstra and A* solvers return non-empty paths with the same number of cells.
C5_EqualLength ==
  Generated =>
    \A s \in DOMAIN grid : \A e \in DOMAIN grid :
      LET b == BFSSolve(grid, width, height, s, e, solution_path).ret
          d == DijkstraSolve(grid, width, height, s, e, solution_path).ret
          a == AStarSolve(grid, width, height, s, e, solution_path).ret
      IN b # <<>> /\ Len(b) = Len(d) /\ Len(b) = Len(a)

\* A generated maze of six cells in which the three solvers return a path through all six.
C5_Witness ==
  /\ Generated
  /\ \E s \in DOMAIN grid : \E e \in DOMAIN grid :
       /\ Len(BFSSolve(grid, width, height, s, e, solution_path).ret) = 6
       /\ Len(DijkstraSolve(grid, width, height, s, e, solution_path).ret) = 6
       /\ Len(AStarSolve(grid, width, height, s, e, solution_path).ret) = 6

\* path leads from s to e, each step to an adjacent cell with no wall on either side.
ValidPath(g, path, s, e) ==
  /\ path[1] = s
  /\ Last(path) = e
  /\ \A i \in 1 .. Len(path) - 1 :
       /\ are_adjacent(path[i], path[i + 1])
       /\ DirTo(path[i], path[i + 1]) \notin g[path[i]].walls
       /\ DirTo(path[i + 1], path[i]) \notin g[path[i + 1]].walls

\* C6: a non-empty path returned by any of the five solvers starts at
\* grid.start, ends at grid.end and never crosses a wall.
C6_PathValid ==
  (last.op = "solve" /\ last.ret # <<>>) => ValidPath(grid, last.ret, start, end)

\* The wall follower has returned a path of at least eight cells.
C6_Witness ==
  /\ last.op = "solve"
  /\ last.solver = "wall_follower"
  /\ Len(last.ret) >= 8

\* C7: a non-empty path returned by the DFS solver or the wall follower has at
\* least as many cells as the path BFS returns on the same maze, start and end.
C7_AtLeastOptimal ==
  (last.op = "solve" /\ last.solver \in {"dfs", "wall_follower"} /\ last.ret # <<>>) =>
    Len(last.ret) >= Len(BFSSolve(grid, width, height, start, end, solution_path).ret)

\* The DFS solver has returned a path longer than the one BFS returns.
C7_Witness ==
  /\ last.op = "solve"
  /\ last.solver = "dfs"
  /\ last.ret # <<>>
  /\ Len(last.ret) > Len(BFSSolve(grid, width, height, start, end, solution_path).ret)
  /\ BFSSolve(grid, width, height, start, end, solution_path).ret # <<>>

\* C8: on a maze a generator has produced, for every start and end cell, the
\* wall follower returns a non-empty path that ends at the end cell, and its
\* loop detection does not fire.
C8_WallFollowerSafe ==
  Generated =>
    \A s \in DOMAIN grid : \A e \in DOMAIN grid :
      LET r == WallFollowerSolve(grid, width, height, s, e, solution_path)
      IN r.ret # <<>> /\ Last(r.ret) = e /\ r.ret[1] = s /\ ~r.looped

\* A generated maze on which the wall follower walks into dead ends and back:
\* its path is at least four cells longer than the one BFS returns.
C8_Witness ==
  /\ Generated
  /\ \E s \in DOMAIN grid : \E e \in DOMAIN grid :
       LET r == WallFollowerSolve(grid, width, height, s, e, solution_path)
       IN /\ ~r.looped
          /\ Len(r.ret) >= Len(BFSSolve(grid, width, height, s, e, solution_path).ret) + 4

\* C9: the wall follower returns on every wall configuration, after at most
\* 4*width*height iterations of its loop; when it has seen a (position, facing)
\* state a second time it has returned the empty path, and otherwise it has
\* reached the end.
C9_WallFollowerTerminates ==
  (last.op = "solve" /\ last.solver = "wall_follower") =>
    /\ last.iters <= 4 * width * height
    /\ last.looped => last.ret = <<>> /\ solution_path = <<>>
    /\ (~last.looped /\ start # None /\ end # None) => (last.ret # <<>> /\ Last(last.ret) = end)

\* The wall follower has circled a cycle of passages and returned the empty
\* path although the end can be reached.
C9_Witness ==
  /\ last.op = "solve"
  /\ last.solver = "wall_follower"
  /\ last.looped
  /\ last.iters > 4
  /\ BFSSolve(grid, width, height, start, end, solution_path).ret # <<>>

\* The finished generate calls of seeded generators, as pairs of indexes into runs,
\* that ran the same algorithm with the same seed (on the one grid size of the behaviour).
SameRuns ==
  {p \in (DOMAIN runs) \X (DOMAIN runs) :
     runs[p[1]].alg = runs[p[2]].alg /\ runs[p[1]].seed = runs[p[2]].seed}

\* C2: two generate calls of generators constructed with the same seed, of the
\* same algorithm on the same grid size, leave the same walls in every cell,
\* whatever the order of the constructions and the calls, the same generator
\* called twice included (no other caller draws random numbers in between).
C2_Reproducible ==
  \A p \in SameRuns :
    "foreign" \notin (runs[p[1]].seen \cup runs[p[2]].seen) =>
      runs[p[1]].layout = runs[p[2]].layout

\* C3: the layout of a seeded generate call is the same whether or not other
\* callers draw random numbers between its generator's construction and its end.
C3_PrivateStream ==
  \A p \in SameRuns :
    (runs[p[1]].seen = {} /\ runs[p[2]].seen = {"foreign"}) =>
      runs[p[1]].layout = runs[p[2]].layout

\* Two generate calls, each right after the construction of its generator with
\* the same seed, leave the same walls.
IsolatedRunsAgree ==
  \A p \in SameRuns :
    (runs[p[1]].seen = {} /\ runs[p[2]].seen = {}) => runs[p[1]].layout = runs[p[2]].layout

\* The number of iterations the loops of the DFS, Prim and Kruskal generators
\* have taken stays within a bound the grid size gives: each cell is pushed and
\* popped once, a cell adds at most four entries to Prim's list, and Kruskal's
\* loop runs once for each pair of adjacent cells.
StepsBounded ==
  /\ pc = "dfs" => loc.iters <= 2 * width * height - 1
  /\ pc = "prim" => loc.iters <= 4 * width * height
  /\ pc \in {"kruskal_shuffle", "kruskal"} => loc.iters <= Len(KruskalEdges(width, height))

\* C10: every generate call of any of the four generators returns, on every
\* grid, the 1 x 1 grid included; the loops of DFS, Prim and Kruskal within a
\* number of iterations bounded by the grid size, Wilson's when its walk is fair.
C10_Terminates == [](StepsBounded /\ (pc # "idle" => <>(pc = "idle")))

\* Wilson's generator has returned on one of the largest grids.
C10_Witness ==
  /\ Generated
  /\ last.alg = "wilson"
  /\ width * height = LiveCells

\* The end can be reached from the start through removed walls.
Reachable == start # None /\ end # None /\ end \in Reach(grid, {start})

\* C11: when the end cannot be reached from the start through removed walls,
\* every solver returns the empty path and leaves solution_path empty.
C11_UnreachableEmpty ==
  (last.op = "solve" /\ start # None /\ end # None /\ ~Reachable) =>
    (last.ret = <<>> /\ solution_path = <<>>)

\* The wall follower has returned after walking a passage that leads from the
\* start to a cell other than the end, which no passage reaches.
C11_Witness ==
  /\ last.op = "solve"
  /\ last.solver = "wall_follower"
  /\ start # None /\ end # None /\ ~Reachable
  /\ grid[start].walls # Direction
  /\ last.ret = <<>>

\* C12: solve of any solver on a grid whose start or end is unset returns the
\* empty sequence and changes neither a cell nor start, end or solution_path.
C12_UnsetEndpoints ==
  [][(pc = "idle" /\ last'.op = "solve" /\ (start = None \/ end = None)) =>
       (last'.ret = <<>> /\ grid' = grid /\ start' = start /\ end' = end
        /\ solution_path' = solution_path /\ width' = width /\ height' = height)]_vars

\* Dijkstra's solver has returned on a generated maze with a start and no end.
C12_Witness ==
  /\ last.op = "solve"
  /\ last.solver = "dijkstra"
  /\ start # None /\ end = None
  /\ \E c \in DOMAIN grid : grid[c].visited /\ grid[c].walls # Direction

\* C13: when a solver returns a non-empty path, solution_path is that path.
C13_PathStored ==
  (last.op = "solve" /\ last.ret # <<>>) => solution_path = last.ret

\* A* has returned a path of at least five cells.
C13_Witness ==
  /\ last.op = "solve"
  /\ last.solver = "astar"
  /\ Len(last.ret) >= 5
  /\ solution_path = last.ret

\* C14: on the 1 x 1 grid every generator leaves the cell with its four walls,
\* and with start = end = (0, 0) every solver returns the path of that one cell.
C14_SingleCell ==
  (width = 1 /\ height = 1) =>
    /\ Generated => grid[<<0, 0>>].walls = Direction
    /\ (last.op = "solve" /\ start = <<0, 0>> /\ end = <<0, 0>>) =>
         (last.ret = <<<<0, 0>>>> /\ solution_path = <<<<0, 0>>>>)

\* Dijkstra's solver has returned on the 1 x 1 grid after a generator ran on it.
C14_Witness ==
  /\ width = 1 /\ height = 1
  /\ last.op = "solve"
  /\ last.solver = "dijkstra"
  /\ start = <<0, 0>> /\ end = <<0, 0>>
  /\ grid[<<0, 0>>].visited
  /\ grid[<<0, 0>>].walls = Direction

\* The walls at the border of the grid, none of which generation may open.
BorderIntact(g, w, h) ==
  \A c \in DOMAIN g : \A d \in Direction :
    get_cell(w, h, step(c, d)[1], step(c, d)[2]) = None => d \in g[c].walls

\* C15: generate, called on a grid in any prior state, first restores the four
\* walls of every cell and clears the visited flags (the cell it starts from
\* is marked again at once), and ends with a spanning tree: symmetric walls,
\* the border closed, width*height - 1 passages, every cell reachable.
C15_Restartable ==
  /\ [][(pc = "idle" /\ pc' # "idle") =>
          /\ \A c \in DOMAIN grid : grid'[c].walls = Direction
          /\ Cardinality({c \in DOMAIN grid : grid'[c].visited}) <= 1]_vars
  /\ [](Generated => /\ SpanningTree(grid, width, height)
                     /\ C4_WallSymmetry
                     /\ BorderIntact(grid, width, height))

\* Prim's generator has returned on the 2 x 2 grid.
C15_Witness ==
  /\ Generated
  /\ last.alg = "prim"
  /\ width = 2 /\ height = 2

\* C16: remove_wall_between(a, b) returns whether a and b are at Manhattan
\* distance 1; when they are not it changes no cell, and when they are it
\* removes the wall of a facing b and the wall of b facing a and nothing else.
C16_RemoveWallBetween ==
  [][(pc = "idle" /\ pc' = "idle" /\ last'.op = "remove_wall_between") =>
       LET a == last'.cell1
           b == last'.cell2
           near == Abs(a[1] - b[1]) + Abs(a[2] - b[2]) = 1
       IN /\ last'.ret = near
          /\ ~near => grid' = grid
          /\ near => grid' = [c \in DOMAIN grid |->
                                IF c = a THEN [grid[c] EXCEPT !.walls = @ \ {DirTo(a, b)}]
                                ELSE IF c = b THEN [grid[c] EXCEPT !.walls = @ \ {DirTo(b, a)}]
                                ELSE grid[c]]]_vars

\* remove_wall_between has returned false for two diagonal cells of a grid
\* in which an earlier call removed a wall.
C16_Witness ==
  /\ last.op = "remove_wall_between"
  /\ ~last.ret
  /\ Abs(last.cell1[1] - last.cell2[1]) = 1
  /\ Abs(last.cell1[2] - last.cell2[2]) = 1
  /\ \E c \in DOMAIN grid : grid[c].walls # Direction

\* The cells flagged as start and as end are the ones start and end refer to.
FlagsAgree ==
  \A c \in DOMAIN grid : grid[c].is_start = (c = start) /\ grid[c].is_end = (c = end)

\* What a set_start or set_end call with coordinates x, y must do to the cell
\* reference ref (start or end) and must leave of the other one, other.
SetsEndpoint(x, y, ret, ref, ref2, other, other2) ==
  LET inside == 0 <= x /\ x < width /\ 0 <= y /\ y < height
  IN /\ ret = inside
     /\ other2 = other
     /\ inside => ref2 = <<x, y>>
     /\ ~inside => (ref2 = ref /\ grid' = grid)

\* C17: a set_start or set_end call with coordinates outside the grid returns
\* false and changes nothing, one with coordinates inside returns true, and
\* at all times the is_start and is_end flags are set on exactly the cells
\* start and end refer to, so on at most one cell each.
C17_Endpoints ==
  /\ []FlagsAgree
  /\ [][/\ (pc = "idle" /\ pc' = "idle" /\ last'.op = "set_start") =>
             SetsEndpoint(last'.x, last'.y, last'.ret, start, start', end, end')
        /\ (pc = "idle" /\ pc' = "idle" /\ last'.op = "set_end") =>
             SetsEndpoint(last'.x, last'.y, last'.ret, end, end', start, start')]_vars

\* set_start has returned false for coordinates outside a grid whose start and
\* end are set on two different cells.
C17_Witness ==
  /\ last.op = "set_start"
  /\ ~last.ret
  /\ start # None /\ end # None /\ start # end
  /\ grid[start].is_start /\ grid[end].is_end

\* C18: reset_solution empties solution_path and clears distance and parent of
\* every cell, leaving visited, the walls and start/end; reset_visited clears
\* visited of every cell, leaving the walls, distance, parent, start/end and
\* solution_path.
C18_ResetFrames ==
  [][/\ (pc = "idle" /\ pc' = "idle" /\ last'.op = "reset_solution") =>
          /\ solution_path' = <<>>
          /\ grid' = [c \in DOMAIN grid |->
                        [grid[c] EXCEPT !.distance = NoDist, !.parent = None]]
          /\ start' = start /\ end' = end
     /\ (pc = "idle" /\ pc' = "idle" /\ last'.op = "reset_visited") =>
          /\ grid' = [c \in DOMAIN grid |-> [grid[c] EXCEPT !.visited = FALSE]]
          /\ solution_path' = solution_path
          /\ start' = start /\ end' = end]_vars

\* reset_solution has returned on a generated maze: the cells are still
\* visited and carved, and start and end are still set.
C18_Witness ==
  /\ last.op = "reset_solution"
  /\ start # None /\ end # None /\ start # end
  /\ \A c \in DOMAIN grid : grid[c].visited /\ grid[c].walls # Direction
  /\ solution_path = <<>>

\* C19: Maze(w, h) with w < 1 or h < 1 raises the dimension error and leaves no
\* maze; otherwise it leaves w*h cells, one per coordinate of
\* [0, w) x [0, h), each with four walls, unvisited, without distance and
\* parent, and a maze without start and end and with an empty solution_path.
C19_Construction ==
  /\ pc = "failed" => (last.op = "Maze" /\ last.ret = "ValueError" /\ DOMAIN grid = {})
  /\ last.op = "Maze" =>
       /\ (last.ret = "ValueError") = (last.w < 1 \/ last.h < 1)
       /\ last.ret = "ValueError" => pc = "failed"
       /\ last.ret # "ValueError" =>
            /\ pc = "idle"
            /\ width = last.w /\ height = last.h
            /\ DOMAIN grid = (0 .. last.w - 1) \X (0 .. last.h - 1)
            /\ Cardinality(DOMAIN grid) = last.w * last.h
            /\ \A c \in DOMAIN grid :
                 /\ grid[c].walls = Direction
                 /\ ~grid[c].visited
                 /\ grid[c].distance = NoDist
                 /\ grid[c].parent = None
                 /\ ~grid[c].is_start /\ ~grid[c].is_end
            /\ start = None /\ end = None /\ solution_path = <<>>

\* Maze(1, 0) has raised.
C19_Witness ==
  /\ pc = "failed"
  /\ last.op = "Maze"
  /\ last.w = 1 /\ last.h = 0

\* C20: after a solve call of any solver with start and end set, the distance
\* of the start cell is 0.
C20_StartDistanceZero ==
  (last.op = "solve" /\ start # None /\ end # None) => grid[start].distance = 0

\* No element occurs twice in the list s.
NoRepeat(s) == \A i \in 1 .. Len(s) : \A j \in 1 .. Len(s) : s[i] = s[j] => i = j

\* The number of steps of the walk through removed walls from the cells of
\* `seen`, which are k steps from the start of the walk, to the cell `to`.
RECURSIVE StepsFrom(_, _, _, _)
StepsFrom(g, seen, to, k) ==
  IF to \in seen THEN k
  ELSE StepsFrom(g, seen \cup UNION {Open(g, c) : c \in seen}, to, k + 1)

\* The minimum number of steps through removed walls from cell `from` to
\* cell `to`, NoDist when there is no way.
Steps(g, from, to) ==
  IF to \in Reach(g, {from}) THEN StepsFrom(g, {from}, to, 0) ELSE NoDist

\* The loop run iteration by iteration has returned what the solve method
\* run as a whole returns, and left the cells as it leaves them.
SearchAgrees ==
  last.op = "solve" =>
    LET r == solve(last.solver, grid, width, height, start, end, solution_path)
    IN r.ret = last.ret /\ r.grid = grid /\ r.solution_path = solution_path

\* C21: whenever the end can be reached from the start, the BFS solver returns
\* a path with the minimum possible number of steps, and during its search no
\* cell is appended to the queue twice.
C21_BFSShortest ==
  /\ (last.op = "solve" /\ last.solver = "bfs" /\ Reachable) =>
       (last.ret # <<>> /\ Len(last.ret) - 1 = Steps(grid, start, end))
  /\ pc = "bfs" => NoRepeat(loc.queued)

\* BFS has returned a path of four cells on a 3 x 2 grid with all its seven
\* internal walls removed, where longer ways lead to the end as well.
C21_Witness ==
  /\ last.op = "solve" /\ last.solver = "bfs"
  /\ width = 3 /\ height = 2
  /\ RemovedWalls(grid, width, height) = 7
  /\ Len(last.ret) = 4

\* C22: whenever the end can be reached from the start, the A* solver returns
\* a path of minimum length; its heuristic never exceeds the number of steps
\* that remain to the end and differs by at most 1 between two cells with no
\* wall between them; and every cell in its visited set has the minimum
\* number of steps from the start as its g score.
C22_AStarShortest ==
  /\ (last.op = "solve" /\ last.solver = "astar" /\ Reachable) =>
       (last.ret # <<>> /\ Len(last.ret) - 1 = Steps(grid, start, end))
  /\ pc = "astar" =>
       /\ \A c \in Reach(grid, {end}) : heuristic(c, end) <= Steps(grid, c, end)
       /\ \A c \in DOMAIN grid : \A n \in Open(grid, c) :
            Abs(heuristic(c, end) - heuristic(n, end)) <= 1
       /\ \A c \in loc.visited : loc.g_scores[c] = Steps(grid, start, c)
       /\ NoRepeat(loc.order)

\* A* is searching a 3 x 2 grid where two ways lead to the end, and has so far
\* given a g score to five cells and popped three of them.
C22_Witness ==
  /\ pc = "astar"
  /\ width = 3 /\ height = 2
  /\ RemovedWalls(grid, width, height) >= 6
  /\ Cardinality(loc.visited) >= 3
  /\ Cardinality(DOMAIN loc.g_scores) >= 5

\* C23: in the Dijkstra solver no cell is added to the visited set twice;
\* an iteration that pops an entry for a cell in the visited set changes no
\* cell; and every cell in the visited set, the end cell on which the solver
\* returns too, has the minimum number of steps from the start as its distance.
C23_DijkstraFinalized ==
  /\ [](pc = "dijkstra" =>
          /\ NoRepeat(loc.order)
          /\ \A c \in loc.visited : grid[c].distance = Steps(grid, start, c))
  /\ []((last.op = "solve" /\ last.solver = "dijkstra" /\ last.ret # <<>>) =>
          grid[end].distance = Steps(grid, start, end))
  /\ [][(pc = "dijkstra" /\ loc.pq # <<>> /\ loc.pq[HeapMin(loc.pq)][2] \in loc.visited) =>
          (grid' = grid /\ loc'.visited = loc.visited /\ loc'.order = loc.order)]_vars

\* Dijkstra's solver has added five cells of a 3 x 2 grid with cycles to its visited set.
C23_Witness ==
  /\ pc = "dijkstra"
  /\ width = 3 /\ height = 2
  /\ RemovedWalls(grid, width, height) >= 6
  /\ Len(loc.order) >= 5

\* C27: in a cell with a removed wall the wall follower turns left at most
\* twice before it moves on; a third turn in a row happens only in a cell with
\* its four walls, and started in such a cell that is not the end the walker
\* turns four times and returns the empty path.
C27_WallFollowerTurns ==
  /\ pc = "wall_follower" =>
       /\ grid[loc.current].walls # Direction => loc.turns <= 2
       /\ loc.turns <= 4
  /\ (last.op = "solve" /\ last.solver = "wall_follower" /\ start # None /\ end # None) =>
       /\ last.turns > 2 => grid[last.at].walls = Direction
       /\ (grid[start].walls = Direction /\ start # end) => (last.turns = 4 /\ last.ret = <<>>)

\* The walker has turned left twice in a dead end it walked into.
C27_Witness ==
  /\ pc = "wall_follower"
  /\ loc.turns = 2
  /\ loc.current # start
  /\ Cardinality(grid[loc.current].walls) = 3

\* The cells marked visited.
Visited(g) == {c \in DOMAIN g : g[c].visited}

\* The visited cells are connected by removed walls to each other and to no
\* other cell, and one wall less than there are visited cells is removed.
VisitedTree(g, w, h) ==
  /\ \A c \in Visited(g) : Reach(g, {c}) = Visited(g)
  /\ Visited(g) # {} => RemovedWalls(g, w, h) = Cardinality(Visited(g)) - 1

\* The grid g with the wall between the adjacent cells a and b removed on both sides.
Carved(g, a, b) ==
  [g EXCEPT ![a].walls = @ \ {DirTo(a, b)}, ![b].walls = @ \ {DirTo(b, a)}]

\* C24: the edge list of Kruskal's generator holds every pair of adjacent
\* cells exactly once, w*(h-1) + h*(w-1) edges; two cells have the same
\* union-find root exactly when removed walls connect them; the removed walls
\* close no cycle; and an edge is carved if and only if its two cells were not
\* connected when it was processed.
C24_Kruskal ==
  /\ [](pc \in {"kruskal_shuffle", "kruskal"} =>
          LET pairs == {{loc.edges[i][1], loc.edges[i][2]} : i \in 1 .. Len(loc.edges)}
              roots == [c \in DOMAIN grid |-> find(loc.uf, c).root]
              parts == {Reach(grid, {c}) : c \in DOMAIN grid}
          IN /\ Len(loc.edges) = width * (height - 1) + height * (width - 1)
             /\ Cardinality(pairs) = Len(loc.edges)
             /\ pairs = {{q[1], q[2]} : q \in {q \in (DOMAIN grid) \X (DOMAIN grid) :
                                                  are_adjacent(q[1], q[2])}}
             /\ {{c \in DOMAIN grid : roots[c] = roots[n]} : n \in DOMAIN grid} = parts
             /\ RemovedWalls(grid, width, height) = width * height - Cardinality(parts))
  /\ [][(pc = "kruskal" /\ pc' = "kruskal") =>
          LET e == loc.edges[loc.idx]
          IN /\ loc'.idx = loc.idx + 1
             /\ loc'.edges = loc.edges
             /\ grid' = IF e[2] \in Reach(grid, {e[1]}) THEN grid
                        ELSE Carved(grid, e[1], e[2])]_vars

\* Kruskal's generator has processed the seven edges of the 3 x 2 grid, two of
\* which it did not carve.
C24_Witness ==
  /\ pc = "kruskal"
  /\ width = 3 /\ height = 2
  /\ loc.idx > Len(loc.edges)
  /\ RemovedWalls(grid, width, height) = 5

\* C25: during a random walk of Wilson's generator the path holds no cell
\* twice, consecutive cells of it are neighbors and only its last cell can be
\* visited; adding the path to the maze marks exactly the cells of the path
\* that were not visited and removes one wall for each of them; and before and
\* after every walk the visited cells form a tree.
C25_Wilson ==
  /\ [](pc = "wilson_walk" =>
          /\ NoRepeat(loc.path)
          /\ loc.path # <<>> /\ Last(loc.path) = loc.current
          /\ \A i \in 1 .. Len(loc.path) - 1 :
               ~grid[loc.path[i]].visited /\ are_adjacent(loc.path[i], loc.path[i + 1]))
  /\ [](pc \in {"wilson", "wilson_walk"} => VisitedTree(grid, width, height))
  /\ [][(pc = "wilson_walk" /\ pc' = "wilson") =>
          LET added == {loc.path[i] : i \in 1 .. Len(loc.path)} \ Visited(grid)
          IN /\ Visited(grid') = Visited(grid) \cup added
             /\ RemovedWalls(grid', width, height) =
                  RemovedWalls(grid, width, height) + Cardinality(added)
             /\ {loc'.unvisited[i] : i \in 1 .. Len(loc'.unvisited)} =
                  DOMAIN grid \ Visited(grid')]_vars

\* A walk on the 3 x 2 grid has a path of four cells, none of them in the
\* maze, which already has two cells.
C25_Witness ==
  /\ pc = "wilson_walk"
  /\ width = 3 /\ height = 2
  /\ Len(loc.path) = 4
  /\ ~grid[loc.current].visited
  /\ Cardinality(Visited(grid)) = 2

\* C26: every step of the DFS and Prim generators that changes the grid marks
\* one unvisited cell and removes the wall between it and a visited cell, and
\* nothing else; so at every step the visited cells form a tree, with one
\* removed wall less than there are visited cells.
C26_GrowingTree ==
  /\ [](pc \in {"dfs", "prim"} => VisitedTree(grid, width, height))
  /\ [][(pc \in {"dfs", "prim"} /\ pc' = pc /\ grid' # grid) =>
          \E v \in Visited(grid) : \E n \in DOMAIN grid \ Visited(grid) :
            /\ are_adjacent(v, n)
            /\ grid' = Carved([grid EXCEPT ![n].visited = TRUE], v, n)]_vars

\* Prim's generator has run more iterations than it has carved walls: it has
\* discarded a candidate with both sides in the maze.
C26_Witness ==
  /\ pc = "prim"
  /\ width = 2 /\ height = 2
  /\ loc.iters > Cardinality(Visited(grid)) - 1
  /\ Cardinality(Visited(grid)) = 4

\* C28: solution_path is empty, or it leads from the cell start refers to now
\* to the cell end refers to now, each step between adjacent cells with the
\* wall between them removed in the grid as it is now.
C28_SolutionPathValid ==
  \/ solution_path = <<>>
  \/ /\ start # None
     /\ end # None
     /\ ValidPath(grid, solution_path, start, end)

\* C29: in every state a cell in column 0 has its west wall, a cell in the last
\* column its east wall, a cell in row 0 its north wall and a cell in the last
\* row its south wall; so the step from any cell through any removed wall
\* leads to coordinates of a cell of the grid.
C29_BorderIntact ==
  /\ \A c \in DOMAIN grid :
       /\ c[1] = 0 => "WEST" \in grid[c].walls
       /\ c[1] = width - 1 => "EAST" \in grid[c].walls
       /\ c[2] = 0 => "NORTH" \in grid[c].walls
       /\ c[2] = height - 1 => "SOUTH" \in grid[c].walls
  /\ \A c \in DOMAIN grid : \A d \in Direction \ grid[c].walls :
       /\ 0 <= step(c, d)[1] /\ step(c, d)[1] < width
       /\ 0 <= step(c, d)[2] /\ step(c, d)[2] < height

\* After a generate call has returned, remove_wall_between has returned true
\* on a grid of three columns and two rows, and the corner cell (0, 0) has
\* both its walls to other cells removed.
C29_Witness ==
  /\ width = 3 /\ height = 2
  /\ pc = "idle"
  /\ last.op = "remove_wall_between" /\ last.ret
  /\ \A c \in DOMAIN grid : grid[c].visited
  /\ grid[<<0, 0>>].walls = {"NORTH", "WEST"}

\* C30: a path returned by the BFS, DFS, Dijkstra or A* solver has no cell
\* twice, is the chain of parents from the end, and its first cell is the
\* start, which has no parent; and when the removed walls form a spanning
\* tree, as after generate, all four solvers return that same path.
C30_SamePath ==
  (last.op = "solve" /\ last.solver \in Solvers \ {"wall_follower"}) =>
     /\ NoRepeat(last.ret)
     /\ last.ret # <<>> =>
          /\ last.ret = Reverse(ParentChain(grid, end))
          /\ last.ret[1] = start
          /\ grid[start].parent = None
     /\ SpanningTree(grid, width, height) =>
          \A sv \in Solvers \ {"wall_follower"} :
            solve(sv, grid, width, height, start, end, solution_path).ret = last.ret

\* The DFS solver has returned a path of at least four cells on a grid of six
\* cells whose removed walls form a spanning tree.
C30_Witness ==
  /\ last.op = "solve" /\ last.solver = "dfs"
  /\ width * height = 6
  /\ SpanningTree(grid, width, height)
  /\ Len(last.ret) >= 4
====
